---- MODULE Spec2Model ----
(***************************************************************************)
(* Analytics core of quant-options-agent: gamma exposure and gamma flip,   *)
(* max pain, open-interest walls and cross-expiry resonance / confluence,  *)
(* as implemented in scripts/fetch_options_data.py and                     *)
(* scripts/local_server.py.                                                *)
(*                                                                         *)
(* Number representation (Python floats become scaled integers):           *)
(*   prices (spot, strike)   mills, 1 = 0.001; round(x, 2) is Round2       *)
(*   implied volatility      percent, 30 = 0.30                            *)
(*   time to expiry T        1 = 0.0001 year                               *)
(*   gamma                   1 = 0.000001                                  *)
(*   GEX in billions         1 = 0.00000001; round(x, 6) is Round6 and     *)
(*                           round(x, 4) is Round4                         *)
(***************************************************************************)
EXTENDS Integers, Sequences, FiniteSets, TLC

VARIABLES
    spot,       \* spot price handed to the calculators
    T,          \* time to expiry handed to the GEX calculators
    options,    \* option chain of one expiry: sequence of contracts
    expiries,   \* selected expiries, each with a label and a chain
    top_n,      \* top_n argument of select_walls_by_expiry
    expirations,
                \* available expiration dates handed to select_expirations
    now,        \* system clock read by datetime.now(), in half days
    out         \* result of the last calculator call, out.fn names it

vars == <<spot, T, options, expiries, top_n, expirations, now, out>>

NoCall == [fn |-> "none"]

----------------------------------------------------------------------------
(* Generic helpers                                                         *)

Abs(x) == IF x < 0 THEN -x ELSE x

Max(a, b) == IF a >= b THEN a ELSE b

Min(a, b) == IF a <= b THEN a ELSE b

Last(s) == s[Len(s)]

Range(s) == {s[i] : i \in 1..Len(s)}

\* all sequences over S of length at most n
RECURSIVE SeqsUpTo(_, _)
SeqsUpTo(S, n) ==
    IF n = 0 THEN {<<>>}
    ELSE LET shorter == SeqsUpTo(S, n - 1)
         IN shorter \cup {Append(s, x) : s \in {t \in shorter : Len(t) = n - 1}, x \in S}

\* sorted(keys): ascending sequence of a finite set of integers
RECURSIVE SortedKeys(_)
SortedKeys(S) ==
    IF S = {} THEN <<>>
    ELSE LET m == CHOOSE x \in S : \A y \in S : x <= y
         IN <<m>> \o SortedKeys(S \ {m})

\* Python round(x, n) on a scaled integer: nearest multiple of unit, a tie
\* goes to the even multiple
RoundTo(x, unit) ==
    LET q == x \div unit
        r == x % unit
    IN IF 2 * r < unit THEN q * unit
       ELSE IF 2 * r > unit THEN (q + 1) * unit
       ELSE IF q % 2 = 0 THEN q * unit ELSE (q + 1) * unit

Round2(x) == RoundTo(x, 10)

Round6(x) == RoundTo(x, 100)

Round4(x) == RoundTo(x, 10000)

RECURSIVE Newton(_, _)
Newton(x, g) ==
    LET h == (g + x \div g) \div 2
    IN IF h >= g THEN g ELSE Newton(x, h)

\* math.sqrt on integers: floor of the square root
ISqrt(x) == IF x < 2 THEN x ELSE Newton(x, x)

----------------------------------------------------------------------------
(* Black-Scholes gamma, in fixed point                                     *)

RiskFreeRate4 == 500

\* math.log(spot / strike) * 10^4, by 2(S-K)/(S+K)
Ln4(S, K) == (20000 * (S - K)) \div (S + K)

\* (r + 0.5 * iv^2) * T * 10^4
Drift4(r4, t, iv) == ((r4 + (iv * iv) \div 2) * t) \div 10000

\* iv^2 * T * 10^8
Var8(t, iv) == iv * iv * t

\* math.exp(-0.5 * d1^2) * 10^6 where d1 = num4 / sqrt(var8); the density is
\* 1 / (1 + y + y^2/2) with y = d1^2/2, and 0 past the fixed-point range
Density6(num4, var8) ==
    IF Abs(num4) > 1400 THEN 0
    ELSE LET y3 == (1000 * num4 * num4) \div (2 * var8)
         IN IF y3 > 30000 THEN 0
            ELSE 1000000000 \div (1000 + y3 + (y3 * y3) \div 2000)

\* iv * sqrt(2 * pi * T) * 10^4
SigmaRoot4(var8) ==
    IF var8 <= 300000 THEN ISqrt((var8 * 6283) \div 1000)
    ELSE ISqrt((var8 \div 1000) * 6283)

BSGammaValue(S, K, t, r4, iv) ==
    LET den == (S * SigmaRoot4(Var8(t, iv))) \div 10000
    IN IF den = 0 THEN 0
       ELSE (Density6(Ln4(S, K) + Drift4(r4, t, iv), Var8(t, iv)) * 1000) \div den

\* scripts/fetch_options_data.py: no test of the strike; math.log raises
\* ValueError for a negative ratio and the division raises ZeroDivisionError
\* for strike 0, both caught and turned into 0.0
calculate_black_scholes_gamma(S, K, t, r4, iv) ==
    IF iv <= 0 \/ t <= 0 \/ S <= 0 THEN 0
    ELSE IF K <= 0 THEN 0
    ELSE BSGammaValue(S, K, t, r4, iv)

\* scripts/local_server.py
local_calculate_black_scholes_gamma(S, K, t, r4, sigma) ==
    IF t <= 0 \/ sigma <= 0 \/ S <= 0 \/ K <= 0 THEN 0
    ELSE BSGammaValue(S, K, t, r4, sigma)

\* gamma * oi * 100 * spot * spot * 0.01 / 1e9, in GEX units
GexUnits(gamma6, oi, S) ==
    LET notional == ((S \div 10) * (S \div 10)) \div 10000
        mag == (((gamma6 * Abs(oi)) \div 1000) * notional) \div 10000
    IN IF oi < 0 THEN -mag ELSE mag

----------------------------------------------------------------------------
(* One expiry, scripts/fetch_options_data.py                               *)

DefaultIV == 30

\* index of the last contract of opts at strike K on the CALL branch
\* (isCall) or on the else branch (not isCall) of the grouping loop, 0 if none
LastAt(opts, K, isCall) ==
    LET I == {i \in 1..Len(opts) :
                 opts[i].strike = K /\ ((opts[i].side = "CALL") <=> isCall)}
    IN IF I = {} THEN 0 ELSE CHOOSE i \in I : \A j \in I : j <= i

\* keys of strikes_data
StrikeKeys(opts) == {opts[i].strike : i \in {j \in 1..Len(opts) : opts[j].strike > 0}}

\* strikes_data[K] after the grouping loop of calculate_gamma_flip
StrikesData(opts, K) ==
    LET c == LastAt(opts, K, TRUE)
        p == LastAt(opts, K, FALSE)
    IN [call_oi |-> IF c = 0 THEN 0 ELSE opts[c].oi,
        put_oi  |-> IF p = 0 THEN 0 ELSE opts[p].oi,
        call_iv |-> IF c = 0 THEN DefaultIV ELSE opts[c].iv,
        put_iv  |-> IF p = 0 THEN DefaultIV ELSE opts[p].iv]

\* gex of one strike inside calculate_gamma_flip
StrikeGex(opts, K, S, t, r4) ==
    LET data == StrikesData(opts, K)
        call_gamma == calculate_black_scholes_gamma(S, K, t, r4, data.call_iv)
        put_gamma == calculate_black_scholes_gamma(S, K, t, r4, data.put_iv)
    IN GexUnits(call_gamma, data.call_oi, S) - GexUnits(put_gamma, data.put_oi, S)

\* gex_by_strike of calculate_gamma_flip: <<strike, cumulative_gex>> over the
\* ascending strikes
RECURSIVE CumulativeFrom(_, _, _, _, _, _, _)
CumulativeFrom(opts, keys, i, acc, S, t, r4) ==
    IF i > Len(keys) THEN <<>>
    ELSE LET cum == acc + StrikeGex(opts, keys[i], S, t, r4)
         IN <<[strike |-> keys[i], cumulative_gex |-> cum]>>
            \o CumulativeFrom(opts, keys, i + 1, cum, S, t, r4)

GexByStrike(opts, S, t, r4) ==
    CumulativeFrom(opts, SortedKeys(StrikeKeys(opts)), 1, 0, S, t, r4)

\* the flip loop with a product of 0 taken as a sign change
RECURSIVE FlipLoopZeroProduct(_, _, _)
FlipLoopZeroProduct(curve, i, default) ==
    IF i > Len(curve) THEN default
    ELSE IF curve[i-1].cumulative_gex * curve[i].cumulative_gex <= 0
         THEN (curve[i-1].strike + curve[i].strike) \div 2
         ELSE FlipLoopZeroProduct(curve, i + 1, default)

\* the flip loop: first i with prev * curr < 0 gives the midpoint
RECURSIVE FlipLoop(_, _, _)
FlipLoop(curve, i, default) ==
    IF i > Len(curve) THEN default
    ELSE IF curve[i-1].cumulative_gex * curve[i].cumulative_gex < 0
         THEN (curve[i-1].strike + curve[i].strike) \div 2
         ELSE FlipLoop(curve, i + 1, default)

calculate_gamma_flip(opts, S, t, r4) ==
    IF StrikeKeys(opts) = {} THEN Round2(S)
    ELSE Round2(FlipLoop(GexByStrike(opts, S, t, r4), 2, S))

RECURSIVE TotalGexFrom(_, _, _, _, _)
TotalGexFrom(opts, i, S, t, r4) ==
    IF i > Len(opts) THEN 0
    ELSE LET opt == opts[i]
             gex == GexUnits(calculate_black_scholes_gamma(S, opt.strike, t, r4, opt.iv),
                             opt.oi, S)
         IN (IF opt.oi <= 0 \/ opt.strike <= 0 THEN 0
             ELSE IF opt.side = "PUT" THEN -gex ELSE gex)
            + TotalGexFrom(opts, i + 1, S, t, r4)

calculate_total_gex(opts, S, t, r4) == TotalGexFrom(opts, 1, S, t, r4)

\* strikes_data[K] after the grouping loop of calculate_max_pain
PainData(opts, K) ==
    LET c == LastAt(opts, K, TRUE)
        p == LastAt(opts, K, FALSE)
    IN [call_oi |-> IF c = 0 THEN 0 ELSE opts[c].oi,
        put_oi  |-> IF p = 0 THEN 0 ELSE opts[p].oi]

\* total_value of one test strike
TotalValue(opts, test_strike) ==
    LET RECURSIVE Sum(_)
        Sum(keys) ==
            IF keys = {} THEN 0
            ELSE LET K == CHOOSE k \in keys : TRUE
                     data == PainData(opts, K)
                     call_value == Max(0, test_strike - K) * data.call_oi
                     put_value == Max(0, K - test_strike) * data.put_oi
                 IN (call_value + put_value) * 100 + Sum(keys \ {K})
    IN Sum(StrikeKeys(opts))

\* the search loop with the last minimal strike winning a tie
RECURSIVE PainLoopLastWins(_, _, _, _)
PainLoopLastWins(opts, tests, i, best) ==
    IF i > Len(tests) THEN best.max_pain
    ELSE LET total_value == TotalValue(opts, tests[i])
         IN IF ~best.set \/ total_value <= best.min_value
            THEN PainLoopLastWins(opts, tests, i + 1,
                                  [set |-> TRUE, min_value |-> total_value,
                                   max_pain |-> tests[i]])
            ELSE PainLoopLastWins(opts, tests, i + 1, best)

\* the search loop; best.set is FALSE while min_value is still infinity
RECURSIVE PainLoop(_, _, _, _)
PainLoop(opts, tests, i, best) ==
    IF i > Len(tests) THEN best.max_pain
    ELSE LET total_value == TotalValue(opts, tests[i])
         IN IF ~best.set \/ total_value < best.min_value
            THEN PainLoop(opts, tests, i + 1,
                          [set |-> TRUE, min_value |-> total_value, max_pain |-> tests[i]])
            ELSE PainLoop(opts, tests, i + 1, best)

calculate_max_pain(opts, S) ==
    IF opts = <<>> THEN Round2(S)
    ELSE IF StrikeKeys(opts) = {} THEN Round2(S)
    ELSE Round2(PainLoop(opts, SortedKeys(StrikeKeys(opts)), 1,
                         [set |-> FALSE, min_value |-> 0, max_pain |-> S]))

\* open interest of side within spot * 0.98 .. spot * 1.02
AtmOI(opts, S, isCall) ==
    LET RECURSIVE Sum(_)
        Sum(i) ==
            IF i > Len(opts) THEN 0
            ELSE (IF 100 * opts[i].strike >= 98 * S /\ 100 * opts[i].strike <= 102 * S
                     /\ ((opts[i].side = "CALL") <=> isCall)
                  THEN opts[i].oi ELSE 0) + Sum(i + 1)
    IN Sum(1)

calculate_skew_type(opts, S) ==
    LET call_oi_atm == AtmOI(opts, S, TRUE)
        put_oi_atm == AtmOI(opts, S, FALSE)
    IN IF call_oi_atm = 0 /\ put_oi_atm = 0 THEN "NEUTRAL"
       ELSE IF 10 * call_oi_atm > 12 * put_oi_atm THEN "CALL"
       ELSE IF 10 * put_oi_atm > 12 * call_oi_atm THEN "PUT"
       ELSE "NEUTRAL"

calculate_quant_metrics(opts, S, t) ==
    [fn         |-> "calculate_quant_metrics",
     gamma_flip |-> calculate_gamma_flip(opts, S, t, RiskFreeRate4),
     max_pain   |-> calculate_max_pain(opts, S),
     total_gex  |-> Round6(calculate_total_gex(opts, S, t, RiskFreeRate4)),
     skew_type  |-> calculate_skew_type(opts, S)]

----------------------------------------------------------------------------
(* One expiry, scripts/local_server.py                                     *)

MaxGexRows == 50

\* position of strike K in the insertion-ordered strikes_map, 0 if absent
KeyIndex(map, K) ==
    LET I == {i \in 1..Len(map) : map[i].strike = K}
    IN IF I = {} THEN 0 ELSE CHOOSE i \in I : TRUE

NewBucket(K) ==
    [strike |-> K, has_call |-> FALSE, call_oi |-> 0, call_iv |-> 0,
     has_put |-> FALSE, put_oi |-> 0, put_iv |-> 0]

\* the two loops that build strikes_map; a dict keeps insertion order, so
\* strikes_data lists first the call strikes, then the strikes only puts have
RECURSIVE AddCalls(_, _, _)
AddCalls(map, calls, i) ==
    IF i > Len(calls) THEN map
    ELSE LET call == calls[i]
             m1 == IF KeyIndex(map, call.strike) = 0
                   THEN Append(map, NewBucket(call.strike)) ELSE map
             k == KeyIndex(m1, call.strike)
         IN AddCalls([m1 EXCEPT ![k].has_call = TRUE, ![k].call_oi = call.oi,
                                ![k].call_iv = call.iv], calls, i + 1)

RECURSIVE AddPuts(_, _, _)
AddPuts(map, puts, i) ==
    IF i > Len(puts) THEN map
    ELSE LET put == puts[i]
             m1 == IF KeyIndex(map, put.strike) = 0
                   THEN Append(map, NewBucket(put.strike)) ELSE map
             k == KeyIndex(m1, put.strike)
         IN AddPuts([m1 EXCEPT ![k].has_put = TRUE, ![k].put_oi = put.oi,
                               ![k].put_iv = put.iv], puts, i + 1)

StrikesMap(calls, puts) == AddPuts(AddCalls(<<>>, calls, 1), puts, 1)

\* strike_data.get(key, default)
GetCallOI(s) == IF s.has_call THEN s.call_oi ELSE 0

GetPutOI(s) == IF s.has_put THEN s.put_oi ELSE 0

GetCallIV(s) == IF s.has_call THEN s.call_iv ELSE DefaultIV

GetPutIV(s) == IF s.has_put THEN s.put_iv ELSE DefaultIV

calculate_gex_per_strike(strike, call_oi, put_oi, S, t, r4, call_iv, put_iv) ==
    LET call_gamma == IF call_iv > 0
                      THEN local_calculate_black_scholes_gamma(S, strike, t, r4, call_iv)
                      ELSE 0
        put_gamma == IF put_iv > 0
                     THEN local_calculate_black_scholes_gamma(S, strike, t, r4, put_iv)
                     ELSE 0
    IN GexUnits(call_gamma, call_oi, S) - GexUnits(put_gamma, put_oi, S)

\* sorted(strikes_data, key=strike): a stable insertion sort
RECURSIVE SortByStrike(_)
SortByStrike(data) ==
    IF data = <<>> THEN <<>>
    ELSE LET rest == SortByStrike(SubSeq(data, 1, Len(data) - 1))
             x == Last(data)
             n == Cardinality({i \in 1..Len(rest) : rest[i].strike <= x.strike})
         IN SubSeq(rest, 1, n) \o <<x>> \o SubSeq(rest, n + 1, Len(rest))

\* the GEXData rows: gex and cumulative_gex are rounded to 6 decimals, the
\* running sum itself is not
RECURSIVE GexRows(_, _, _, _, _, _)
GexRows(sorted, i, acc, S, t, r4) ==
    IF i > Len(sorted) THEN <<>>
    ELSE LET sd == sorted[i]
             gex == calculate_gex_per_strike(sd.strike, GetCallOI(sd), GetPutOI(sd),
                                             S, t, r4, GetCallIV(sd), GetPutIV(sd))
             cum == acc + gex
         IN <<[strike |-> sd.strike, gex |-> Round6(gex), cumulative_gex |-> Round6(cum)]>>
            \o GexRows(sorted, i + 1, cum, S, t, r4)

\* the flip loop of find_gamma_flip_strike: the strike of the row that
\* follows the sign change
RECURSIVE LocalFlipLoop(_, _, _)
LocalFlipLoop(rows, i, default) ==
    IF i > Len(rows) THEN default
    ELSE IF rows[i-1].cumulative_gex * rows[i].cumulative_gex < 0
         THEN rows[i].strike
         ELSE LocalFlipLoop(rows, i + 1, default)

find_gamma_flip_strike(strikes_data, S, t, r4) ==
    LET gex_by_strike == GexRows(SortByStrike(strikes_data), 1, 0, S, t, r4)
    IN [gamma_flip |-> LocalFlipLoop(gex_by_strike, 2, S), gex_by_strike |-> gex_by_strike]

LocalTotalValue(strikes_data, test_strike) ==
    LET RECURSIVE Sum(_)
        Sum(i) ==
            IF i > Len(strikes_data) THEN 0
            ELSE LET s == strikes_data[i]
                     call_value == Max(0, test_strike - s.strike) * GetCallOI(s)
                     put_value == Max(0, s.strike - test_strike) * GetPutOI(s)
                 IN (call_value + put_value) * 100 + Sum(i + 1)
    IN Sum(1)

\* the search loop over test_strikes, taken in the order of strikes_data
RECURSIVE LocalPainLoop(_, _, _)
LocalPainLoop(strikes_data, i, best) ==
    IF i > Len(strikes_data) THEN best.max_pain
    ELSE LET total_value == LocalTotalValue(strikes_data, strikes_data[i].strike)
         IN IF ~best.set \/ total_value < best.min_value
            THEN LocalPainLoop(strikes_data, i + 1,
                               [set |-> TRUE, min_value |-> total_value,
                                max_pain |-> strikes_data[i].strike])
            ELSE LocalPainLoop(strikes_data, i + 1, best)

local_calculate_max_pain(strikes_data, S) ==
    IF strikes_data = <<>> THEN S
    ELSE LocalPainLoop(strikes_data, 1, [set |-> FALSE, min_value |-> 0, max_pain |-> S])

SumGex(rows) ==
    LET RECURSIVE Sum(_)
        Sum(i) == IF i > Len(rows) THEN 0 ELSE rows[i].gex + Sum(i + 1)
    IN Sum(1)

IsCall(opt) == opt.side = "CALL"

IsPut(opt) == opt.side = "PUT"

local_calculate_quant_metrics(calls, puts, S, t) ==
    LET strikes_data == StrikesMap(calls, puts)
        flip == find_gamma_flip_strike(strikes_data, S, t, RiskFreeRate4)
    IN [fn            |-> "local_calculate_quant_metrics",
        gamma_flip    |-> Round2(flip.gamma_flip),
        total_gex     |-> Round4(SumGex(flip.gex_by_strike)),
        max_pain      |-> Round2(local_calculate_max_pain(strikes_data, S)),
        gex_by_strike |-> SubSeq(flip.gex_by_strike, 1,
                                 Min(MaxGexRows, Len(flip.gex_by_strike)))]

----------------------------------------------------------------------------
(* Inputs of the one-expiry calculators                                    *)

MaxLen == 3

ChainStrikes == {0, 95000, 100000, 105000}

ChainOI == {0, 5, 10}

ChainSpots == {100000, 102504}

ChainContracts ==
    [strike : ChainStrikes, side : {"CALL", "PUT"}, oi : ChainOI, iv : {DefaultIV}]

\* a chain lists a (strike, side) pair at most once
WellFormed(opts) ==
    \A i, j \in 1..Len(opts) :
        (opts[i].strike = opts[j].strike /\ opts[i].side = opts[j].side) => i = j

OneDay == 27

InitChain ==
    /\ spot \in ChainSpots
    /\ T = OneDay
    /\ options \in {o \in SeqsUpTo(ChainContracts, MaxLen) : WellFormed(o)}
    /\ expiries = <<>>
    /\ top_n = 0
    /\ expirations = <<>>
    /\ now = 0
    /\ out = NoCall

\* fetch_symbol_data: quantMetrics of one downloaded chain
CalculateQuantMetrics ==
    /\ out = NoCall
    /\ out' = calculate_quant_metrics(options, spot, T)
    /\ UNCHANGED <<spot, T, options, expiries, top_n, expirations, now>>

\* get_options: quant_metrics of one expiry, the calls and the puts being
\* the two halves of the chain
LocalCalculateQuantMetrics ==
    /\ out = NoCall
    /\ out' = local_calculate_quant_metrics(SelectSeq(options, IsCall),
                                            SelectSeq(options, IsPut), spot, T)
    /\ UNCHANGED <<spot, T, options, expiries, top_n, expirations, now>>

Next ==
    \/ CalculateQuantMetrics
    \/ LocalCalculateQuantMetrics

Spec == InitChain /\ [][Next]_vars

----------------------------------------------------------------------------
(* Gamma flip and total GEX                                                *)

FromFetch == out.fn = "calculate_quant_metrics"

FromLocal == out.fn = "local_calculate_quant_metrics"

\* the cumulative GEX curve of the call recorded in out
Curve ==
    IF FromFetch THEN GexByStrike(options, spot, T, RiskFreeRate4)
    ELSE IF FromLocal THEN out.gex_by_strike
    ELSE <<>>

\* indices whose cumulative value differs in sign from the one before
FlipIndices(curve) ==
    {i \in 2..Len(curve) : curve[i-1].cumulative_gex * curve[i].cumulative_gex < 0}

FirstFlip(curve) == CHOOSE i \in FlipIndices(curve) : \A j \in FlipIndices(curve) : i <= j

\* x is m / 2 rounded to 2 decimals
IsRoundedHalf(x, m) == x % 10 = 0 /\ Abs(2 * x - m) <= 10

\* C1: in both implementations, when the cumulative GEX curve has a first
\* index i with cumulativeGEX[i-1] * cumulativeGEX[i] < 0, the reported gamma
\* flip is the midpoint of strike[i-1] and strike[i], rounded to 2 decimals
C1_FlipIsMidpoint ==
    (FromFetch \/ FromLocal) /\ FlipIndices(Curve) # {}
        => LET i == FirstFlip(Curve)
           IN IsRoundedHalf(out.gamma_flip, Curve[i-1].strike + Curve[i].strike)

\* C2: when no two adjacent values of the cumulative GEX curve have a
\* strictly negative product (the empty chain included), the gamma flip is
\* the spot price rounded to 2 decimals
C2_NoFlipGivesSpot ==
    (FromFetch \/ FromLocal) /\ FlipIndices(Curve) = {}
        => IsRoundedHalf(out.gamma_flip, 2 * spot)

C2_Witness ==
    /\ FromFetch
    /\ Len(Curve) >= 2
    /\ FlipIndices(Curve) = {}
    /\ \E i \in 1..Len(Curve) : Curve[i].cumulative_gex # 0
    /\ spot % 10 # 0
    /\ out.gamma_flip = 102500

----------------------------------------------------------------------------
(* Max pain                                                                *)

ObservedStrikes == {options[i].strike : i \in {j \in 1..Len(options) : options[j].strike > 0}}

\* open interest of one side at strike K
OIAt(K, side) ==
    LET RECURSIVE Sum(_)
        Sum(i) ==
            IF i > Len(options) THEN 0
            ELSE (IF options[i].strike = K /\ options[i].side = side
                  THEN options[i].oi ELSE 0) + Sum(i + 1)
    IN Sum(1)

\* payoff(S) = sum over strikes of
\*     (max(0, S - strike) * callOI + max(0, strike - S) * putOI) * 100
Payoff(S) ==
    LET RECURSIVE Sum(_)
        Sum(keys) ==
            IF keys = {} THEN 0
            ELSE LET K == CHOOSE k \in keys : TRUE
                 IN (Max(0, S - K) * OIAt(K, "CALL") + Max(0, K - S) * OIAt(K, "PUT")) * 100
                    + Sum(keys \ {K})
    IN Sum(ObservedStrikes)

MinimalStrikes == {S \in ObservedStrikes : \A S2 \in ObservedStrikes : Payoff(S) <= Payoff(S2)}

\* C4: with at least one contract of strike > 0, calculate_max_pain returns
\* an observed strike whose payoff is minimal among the observed strikes;
\* with no valid strike it returns spot (compared at the 2 decimals of the
\* output)
C4_MaxPainMinimizesPayoff ==
    (FromFetch \/ FromLocal)
        => IF ObservedStrikes # {} THEN out.max_pain \in MinimalStrikes
           ELSE IsRoundedHalf(out.max_pain, 2 * spot)

\* C5: when several observed strikes attain the minimal payoff,
\* calculate_max_pain returns the lowest of them, in both implementations
\* and for every order of the contracts
C5_TieGivesLowestStrike ==
    /\ FromFetch \/ FromLocal
    /\ ObservedStrikes # {}
    /\ \A i \in 1..Len(options) : options[i].strike > 0
    => \A S \in MinimalStrikes : out.max_pain <= S

\* equal open interest mirrored around spot
Symmetric ==
    \A K \in ObservedStrikes :
        /\ OIAt(K, "CALL") = OIAt(2 * spot - K, "PUT")
        /\ OIAt(K, "PUT") = OIAt(2 * spot - K, "CALL")
        /\ (2 * spot - K) \in ObservedStrikes

\* strikes {95, 100, 105}, call OI 10 at 105, put OI 10 at 95, other OI 0,
\* spot 100
Scenario ==
    /\ spot = 100000
    /\ ObservedStrikes = {95000, 100000, 105000}
    /\ \A i \in 1..Len(options) : options[i].strike > 0
    /\ OIAt(105000, "CALL") = 10 /\ OIAt(95000, "PUT") = 10
    /\ OIAt(95000, "CALL") = 0 /\ OIAt(100000, "CALL") = 0 /\ OIAt(105000, "PUT") = 0
    /\ OIAt(100000, "PUT") = 0

\* C6 as stated: on a symmetric chain calculate_max_pain returns spot or the
\* observed strike nearest to it, 100 in the scenario
C6_SymmetricGivesSpot ==
    /\ FromFetch /\ Symmetric /\ ObservedStrikes # {}
           => \A S \in ObservedStrikes : Abs(out.max_pain - spot) <= Abs(S - spot)
    /\ FromFetch /\ Scenario => out.max_pain = 100000

\* C6 amended: on a symmetric chain calculate_max_pain returns the lowest
\* observed strike of minimal payoff, which lies at or below spot and may be
\* farther from spot than another strike; in the scenario all three payoffs
\* are 0 and the result is 95
C6_SymmetricGivesLowestMinimum ==
    /\ FromFetch /\ Symmetric /\ ObservedStrikes # {}
           => /\ out.max_pain \in MinimalStrikes
              /\ out.max_pain <= spot
              /\ \A S \in MinimalStrikes : out.max_pain <= S
    /\ FromFetch /\ Scenario => out.max_pain = 95000

C6_Witness == FromFetch /\ Scenario /\ Symmetric /\ out.max_pain = 95000

----------------------------------------------------------------------------
(* Cross-expiry levels, scripts/fetch_options_data.py                      *)

ResonanceTolerance == 5

ConfluenceTolerance == 10

MaxResonance == 2

MaxConfluence == 5

\* abs(a - b) / max(a, b) <= tolerance_pct, the tolerance in thousandths
WithinTolerance(a, b, tol) == 1000 * Abs(a - b) <= tol * Max(a, b)

\* first key of strike_presence within tolerance of opt_strike, 0 if none
FoundKey(presence, opt_strike, tol) ==
    LET I == {k \in 1..Len(presence) : WithinTolerance(presence[k].key, opt_strike, tol)}
    IN IF I = {} THEN 0 ELSE CHOOSE k \in I : \A j \in I : k <= j

\* the inner loop without the test that the expiry is not yet in the group
AddStrikeAnyExpiry(presence, idx, label, opt, tol) ==
    LET opt_strike == Round2(opt.strike)
        k == FoundKey(presence, opt_strike, tol)
        entry == [idx |-> idx, label |-> label, strike |-> opt_strike]
    IN IF opt_strike <= 0 THEN presence
       ELSE IF k # 0
            THEN [presence EXCEPT ![k].members = Append(@, entry)]
            ELSE Append(presence, [key |-> opt_strike, members |-> <<entry>>])

\* one pass of the inner loop: the contract opt of expiry idx
AddStrike(presence, idx, label, opt, tol) ==
    LET opt_strike == Round2(opt.strike)
        k == FoundKey(presence, opt_strike, tol)
        entry == [idx |-> idx, label |-> label, strike |-> opt_strike]
    IN IF opt_strike <= 0 THEN presence
       ELSE IF k # 0
            THEN IF \E e \in Range(presence[k].members) : e.idx = idx
                 THEN presence
                 ELSE [presence EXCEPT ![k].members = Append(@, entry)]
            ELSE Append(presence, [key |-> opt_strike, members |-> <<entry>>])

\* the inner loop from contract j on; the dictionary is built one contract
\* at a time (Len(next) is evaluated before the loop goes on)
RECURSIVE AddOptions(_, _, _, _, _, _)
AddOptions(presence, idx, label, opts, j, tol) ==
    IF j > Len(opts) THEN presence
    ELSE LET next == AddStrike(presence, idx, label, opts[j], tol)
         IN IF Len(next) >= Len(presence)
            THEN AddOptions(next, idx, label, opts, j + 1, tol)
            ELSE presence

\* strike_presence after the grouping loop, in insertion order; expiry
\* indices count from 1
RECURSIVE StrikePresenceFrom(_, _, _, _)
StrikePresenceFrom(presence, exps, idx, tol) ==
    IF idx > Len(exps) THEN presence
    ELSE StrikePresenceFrom(
             AddOptions(presence, idx, exps[idx].label, exps[idx].options, 1, tol),
             exps, idx + 1, tol)

StrikePresence(exps, tol) == StrikePresenceFrom(<<>>, exps, 1, tol)

\* the groups with exactly size members, in insertion order
GroupsOfSize(presence, size) ==
    LET HasSize(g) == Len(g.members) = size
    IN SelectSeq(presence, HasSize)

\* the sort with the strike itself as key
RECURSIVE SortByKey(_, _)
SortByKey(groups, S) ==
    IF groups = <<>> THEN <<>>
    ELSE LET rest == SortByKey(SubSeq(groups, 1, Len(groups) - 1), S)
             x == Last(groups)
             n == Cardinality({i \in 1..Len(rest) : rest[i].key <= x.key})
         IN SubSeq(rest, 1, n) \o <<x>> \o SubSeq(rest, n + 1, Len(rest))

\* sorted(..., key=lambda s: abs(s - spot)): a stable insertion sort
RECURSIVE SortByDistance(_, _)
SortByDistance(groups, S) ==
    IF groups = <<>> THEN <<>>
    ELSE LET rest == SortByDistance(SubSeq(groups, 1, Len(groups) - 1), S)
             x == Last(groups)
             n == Cardinality({i \in 1..Len(rest) :
                                  Abs(rest[i].key - S) <= Abs(x.key - S)})
         IN SubSeq(rest, 1, n) \o <<x>> \o SubSeq(rest, n + 1, Len(rest))

\* one entry of results; members is the expiry_info the entry is built from
\* (the open interest, volume and gamma totals of the entry are not modelled)
LevelOf(group) ==
    [strike   |-> Round2(group.key),
     expiries |-> [i \in 1..Len(group.members) |-> group.members[i].label],
     members  |-> group.members]

BuildLevels(sorted_groups, cap) ==
    [i \in 1..Min(cap, Len(sorted_groups)) |-> LevelOf(sorted_groups[i])]

find_confluence_levels_enhanced(exps, S, tol) ==
    IF Len(exps) < 2 THEN <<>>
    ELSE BuildLevels(SortByDistance(GroupsOfSize(StrikePresence(exps, tol), 2), S),
                     MaxConfluence)

find_resonance_levels_enhanced(exps, S, tol) ==
    IF Len(exps) < 3 THEN <<>>
    ELSE BuildLevels(SortByDistance(GroupsOfSize(StrikePresence(exps, tol), 3), S),
                     MaxResonance)

----------------------------------------------------------------------------
(* Inputs of the cross-expiry functions                                    *)

MaxExpiries == 3

MaxFree == 2

PadTwo == 6

PadThree == 3

Labels == <<"0DTE", "WEEKLY", "MONTHLY">>

NearStrikes == {99000, 99800, 100200}

LevelSpots == {100000, 128004}

\* strikes far from NearStrikes and more than 1% from each other
FarStrike(k) == 110000 + 5000 * k

StrikeOnly(K) == [strike |-> K, side |-> "CALL", oi |-> 1, iv |-> DefaultIV]

NoRepeat(s) == \A i, j \in 1..Len(s) : s[i] = s[j] => i = j

FreeChains == {s \in SeqsUpTo(NearStrikes, MaxFree) : NoRepeat(s)}

\* the chain of expiry idx: its near strikes, then the first p far strikes
\* if it is one of the first two expiries, then q more far strikes
ChainOf(free, idx, p, q) ==
    LET pad == IF idx <= 2 THEN p ELSE 0
    IN [i \in 1..Len(free) |-> StrikeOnly(free[i])]
       \o [i \in 1..pad |-> StrikeOnly(FarStrike(i))]
       \o [i \in 1..q |-> StrikeOnly(FarStrike(p + i))]

ExpirySets ==
    {[idx \in 1..Len(free) |->
         [label |-> Labels[idx], options |-> ChainOf(free[idx], idx, p, q)]] :
        free \in SeqsUpTo(FreeChains, MaxExpiries), p \in {0, PadTwo}, q \in {0, PadThree}}

InitLevels ==
    /\ spot \in LevelSpots
    /\ T = OneDay
    /\ options = <<>>
    /\ expiries \in ExpirySets
    /\ top_n = 0
    /\ expirations = <<>>
    /\ now = 0
    /\ out = NoCall

FindResonanceLevelsEnhanced ==
    /\ out = NoCall
    /\ out' = [fn |-> "find_resonance_levels_enhanced",
               levels |-> find_resonance_levels_enhanced(expiries, spot, ResonanceTolerance)]
    /\ UNCHANGED <<spot, T, options, expiries, top_n, expirations, now>>

FindConfluenceLevelsEnhanced ==
    /\ out = NoCall
    /\ out' = [fn |-> "find_confluence_levels_enhanced",
               levels |-> find_confluence_levels_enhanced(expiries, spot, ConfluenceTolerance)]
    /\ UNCHANGED <<spot, T, options, expiries, top_n, expirations, now>>

NextLevels ==
    \/ FindResonanceLevelsEnhanced
    \/ FindConfluenceLevelsEnhanced

SpecLevels == InitLevels /\ [][NextLevels]_vars

----------------------------------------------------------------------------
(* Resonance and confluence levels                                         *)

FromResonance == out.fn = "find_resonance_levels_enhanced"

FromConfluence == out.fn = "find_confluence_levels_enhanced"

\* strikes of the chain of expiry idx
StrikesOf(idx) ==
    {Round2(expiries[idx].options[j].strike) : j \in 1..Len(expiries[idx].options)}

AllStrikes == UNION {StrikesOf(idx) : idx \in 1..Len(expiries)}

\* expiries that hold the strike s itself
ExpiriesWith(s) == {idx \in 1..Len(expiries) : s \in StrikesOf(idx)}

\* no other strike of any expiry lies within 1% of s
Isolated(s) == \A t \in AllStrikes : t # s => ~WithinTolerance(s, t, ConfluenceTolerance)

Reported(s) == \E i \in 1..Len(out.levels) : out.levels[i].strike = s

\* a level lists exactly size pairwise-distinct expiries, and each strike
\* that takes part lies within tol of the level's strike
LevelShape(level, size, tol) ==
    /\ Len(level.expiries) = size
    /\ Len(level.members) = size
    /\ \A i, j \in 1..size : level.members[i].idx = level.members[j].idx => i = j
    /\ \A i \in 1..size :
           /\ level.members[i].idx \in 1..Len(expiries)
           /\ level.expiries[i] = expiries[level.members[i].idx].label
           /\ level.members[i].strike \in StrikesOf(level.members[i].idx)
           /\ WithinTolerance(level.strike, level.members[i].strike, tol)

LevelShapes ==
    /\ FromResonance =>
           /\ \A i \in 1..Len(out.levels) : LevelShape(out.levels[i], 3, ResonanceTolerance)
           /\ Len(expiries) < 3 => out.levels = <<>>
    /\ FromConfluence =>
           /\ \A i \in 1..Len(out.levels) : LevelShape(out.levels[i], 2, ConfluenceTolerance)
           /\ Len(expiries) < 2 => out.levels = <<>>

\* isolated strikes that occur in exactly 2 of 3 expiries
TwoOfThree ==
    IF Len(expiries) = 3
    THEN {s \in AllStrikes : s > 0 /\ Isolated(s) /\ Cardinality(ExpiriesWith(s)) = 2}
    ELSE {}

\* C7 as stated: resonance levels list exactly 3 and confluence levels
\* exactly 2 pairwise-distinct expiries whose strikes lie within tolerance of
\* the level's strike, the lists are empty below 3 resp. 2 expiries, and an
\* isolated strike found in exactly 2 of 3 expiries is reported as
\* confluence and not as resonance
C7_LevelsListTheirExpiries ==
    /\ LevelShapes
    /\ \A s \in TwoOfThree :
           /\ FromConfluence => Reported(s)
           /\ FromResonance => ~Reported(s)

\* C7 amended: as stated, except that such a strike is left out of the
\* confluence list when 5 levels at least as close to spot are reported
C7_LevelsListTheirExpiriesCapped ==
    /\ LevelShapes
    /\ \A s \in TwoOfThree :
           /\ FromConfluence =>
                  \/ Reported(s)
                  \/ /\ Len(out.levels) = MaxConfluence
                     /\ \A i \in 1..Len(out.levels) :
                            Abs(out.levels[i].strike - spot) <= Abs(s - spot)
           /\ FromResonance => ~Reported(s)

C7_Witness ==
    /\ FromConfluence
    /\ Len(out.levels) = MaxConfluence
    /\ \E s \in TwoOfThree : Reported(s)
    /\ \E s \in TwoOfThree : ~Reported(s)
    /\ \E i \in 1..Len(out.levels) : out.levels[i].strike # out.levels[i].members[2].strike

\* keys of the groups that qualify for the list recorded in out
Qualifying ==
    IF FromResonance /\ Len(expiries) >= 3
    THEN {g.key : g \in Range(GroupsOfSize(StrikePresence(expiries, ResonanceTolerance), 3))}
    ELSE IF FromConfluence /\ Len(expiries) >= 2
    THEN {g.key : g \in Range(GroupsOfSize(StrikePresence(expiries, ConfluenceTolerance), 2))}
    ELSE {}

\* C9: at most 2 resonance and at most 5 confluence levels, each list in
\* non-decreasing distance from spot, and no qualifying group that is left
\* out is strictly closer to spot than a reported one
C9_NearestLevelsWithinCap ==
    FromResonance \/ FromConfluence =>
        /\ FromResonance => Len(out.levels) <= 2
        /\ FromConfluence => Len(out.levels) <= 5
        /\ \A i, j \in 1..Len(out.levels) :
               i < j => Abs(out.levels[i].strike - spot) <= Abs(out.levels[j].strike - spot)
        /\ \A i \in 1..Len(out.levels) : out.levels[i].strike \in Qualifying
        /\ \A k \in Qualifying :
               ~Reported(k) => \A i \in 1..Len(out.levels) :
                                   Abs(out.levels[i].strike - spot) <= Abs(k - spot)

C9_Witness ==
    /\ FromResonance
    /\ Len(out.levels) = 2
    /\ \E k \in Qualifying : ~Reported(k)
    /\ out.levels[1].strike > out.levels[2].strike

----------------------------------------------------------------------------
(* find_confluence_levels: the count of matching strikes per level          *)

\* round(n / d) for n >= 0, d > 0, ties to the even quotient
RoundDiv(n, d) ==
    LET q == n \div d
        r == n % d
    IN IF 2 * r > d \/ (2 * r = d /\ q % 2 = 1) THEN q + 1 ELSE q

\* round(abs(s - spot) / spot * 100, 2), in hundredths of a percent
DistancePct(s, S) == RoundDiv(10000 * Abs(s - S), S)

\* the set strikes of one expiry
StrikeSet(expiry) == {Round2(expiry.options[j].strike) : j \in 1..Len(expiry.options)}

\* the orders in which a set can be iterated
Orders(S) ==
    {o \in [1..Cardinality(S) -> S] : \A i, j \in 1..Cardinality(S) : o[i] = o[j] => i = j}

\* one iteration order for the strike set of each expiry
RECURSIVE IterationOrders(_)
IterationOrders(exps) ==
    IF exps = <<>> THEN {<<>>}
    ELSE {Append(rest, o) : rest \in IterationOrders(SubSeq(exps, 1, Len(exps) - 1)),
                            o \in Orders(StrikeSet(Last(exps)))}

\* first key of strike_counts within tolerance of strike, 0 if none
FoundCount(counts, strike, tol) ==
    LET I == {k \in 1..Len(counts) : WithinTolerance(counts[k].key, strike, tol)}
    IN IF I = {} THEN 0 ELSE CHOOSE k \in I : \A j \in I : k <= j

\* one pass of the inner loop
CountStrike(counts, strike, tol) ==
    LET k == FoundCount(counts, strike, tol)
    IN IF k # 0
       THEN [counts EXCEPT ![k].count = @ + 1]
       ELSE Append(counts, [key |-> strike, count |-> 1])

RECURSIVE CountStrikes(_, _, _, _)
CountStrikes(counts, order, j, tol) ==
    IF j > Len(order) THEN counts
    ELSE LET next == CountStrike(counts, order[j], tol)
         IN IF Len(next) >= Len(counts)
            THEN CountStrikes(next, order, j + 1, tol)
            ELSE counts

\* strike_counts after the counting loop, in insertion order
RECURSIVE StrikeCountsFrom(_, _, _, _)
StrikeCountsFrom(counts, orders, i, tol) ==
    IF i > Len(orders) THEN counts
    ELSE StrikeCountsFrom(CountStrikes(counts, orders[i], 1, tol), orders, i + 1, tol)

StrikeCounts(orders, tol) == StrikeCountsFrom(<<>>, orders, 1, tol)

ConfluenceStrikes(counts) ==
    LET Twice(c) == c.count = 2
    IN SelectSeq(counts, Twice)

\* the result for the iteration orders the run happens to use
find_confluence_levels(exps, orders, S, tol) ==
    IF Len(exps) < 2 THEN <<>>
    ELSE LET sorted == SortByDistance(ConfluenceStrikes(StrikeCounts(orders, tol)), S)
         IN [i \in 1..Min(MaxConfluence, Len(sorted)) |->
                [strike |-> sorted[i].key, distance_pct |-> DistancePct(sorted[i].key, S)]]

MaxStrikes == 3

ConfluenceStrikeSet == NearStrikes \cup {FarStrike(1)}

\* chains of distinct positive strikes, in ascending order
ConfluenceChains ==
    {[i \in 1..Len(SortedKeys(K)) |-> StrikeOnly(SortedKeys(K)[i])] :
        K \in {K \in SUBSET ConfluenceStrikeSet : Cardinality(K) <= MaxStrikes}}

ConfluenceExpirySets ==
    {[idx \in 1..Len(chains) |-> [label |-> Labels[idx], options |-> chains[idx]]] :
        chains \in SeqsUpTo(ConfluenceChains, MaxExpiries)}

InitConfluence ==
    /\ spot \in LevelSpots
    /\ T = OneDay
    /\ options = <<>>
    /\ expiries \in ConfluenceExpirySets
    /\ top_n = 0
    /\ expirations = <<>>
    /\ now = 0
    /\ out = NoCall

FindConfluenceLevels ==
    /\ out = NoCall
    /\ \E orders \in IterationOrders(expiries) :
           out' = [fn |-> "find_confluence_levels",
                   levels |-> find_confluence_levels(expiries, orders, spot, ConfluenceTolerance)]
    /\ UNCHANGED <<spot, T, options, expiries, top_n, expirations, now>>

NextConfluence ==
    \/ FindConfluenceLevels
    \/ FindConfluenceLevelsEnhanced

SpecConfluence == InitConfluence /\ [][NextConfluence]_vars

\* expiries that hold a strike within 1% of s
ExpiriesNear(s) ==
    {idx \in 1..Len(expiries) :
        \E t \in StrikesOf(idx) : WithinTolerance(s, t, ConfluenceTolerance)}

\* C8 as stated: a confluence level is reported only if exactly two of the
\* given expiries hold a strike within 1% of it, for
\* find_confluence_levels_enhanced and for find_confluence_levels
C8_ExactlyTwoExpiriesNear ==
    FromConfluence \/ out.fn = "find_confluence_levels" =>
        \A i \in 1..Len(out.levels) :
            Cardinality(ExpiriesNear(out.levels[i].strike)) = 2

----------------------------------------------------------------------------
(* select_walls_by_expiry                                                   *)

\* the (strike, oi) pairs of one side with positive open interest
SidePairs(opts, side) ==
    LET Keep(opt) == opt.side = side /\ opt.oi > 0
    IN SelectSeq(opts, Keep)

\* sort(key=oi, reverse=True): stable, equal open interest keeps its order
RECURSIVE SortByOIDesc(_)
SortByOIDesc(rows) ==
    IF rows = <<>> THEN <<>>
    ELSE LET rest == SortByOIDesc(SubSeq(rows, 1, Len(rows) - 1))
             x == Last(rows)
             n == Cardinality({i \in 1..Len(rest) : rest[i].oi >= x.oi})
         IN SubSeq(rest, 1, n) \o <<x>> \o SubSeq(rest, n + 1, Len(rest))

\* rows[:n]
Take(rows, n) == SubSeq(rows, 1, Min(n, Len(rows)))

WallOf(opt, label) == [strike |-> Round2(opt.strike), oi |-> opt.oi, expiry |-> label]

\* the call walls one expiry appends: the first n of its calls by open
\* interest, of which those above spot are kept
ExpiryCallWalls(expiry, S, n) ==
    LET Above(opt) == opt.strike > S
        kept == SelectSeq(Take(SortByOIDesc(SidePairs(expiry.options, "CALL")), n), Above)
    IN [i \in 1..Len(kept) |-> WallOf(kept[i], expiry.label)]

ExpiryPutWalls(expiry, S, n) ==
    LET Below(opt) == opt.strike < S
        kept == SelectSeq(Take(SortByOIDesc(SidePairs(expiry.options, "PUT")), n), Below)
    IN [i \in 1..Len(kept) |-> WallOf(kept[i], expiry.label)]

RECURSIVE AllCallWalls(_, _, _)
AllCallWalls(exps, S, n) ==
    IF exps = <<>> THEN <<>>
    ELSE AllCallWalls(SubSeq(exps, 1, Len(exps) - 1), S, n) \o ExpiryCallWalls(Last(exps), S, n)

RECURSIVE AllPutWalls(_, _, _)
AllPutWalls(exps, S, n) ==
    IF exps = <<>> THEN <<>>
    ELSE AllPutWalls(SubSeq(exps, 1, Len(exps) - 1), S, n) \o ExpiryPutWalls(Last(exps), S, n)

select_walls_by_expiry(exps, S, n) ==
    [call_walls |-> Take(SortByOIDesc(AllCallWalls(exps, S, n)), n * Len(exps)),
     put_walls  |-> Take(SortByOIDesc(AllPutWalls(exps, S, n)), n * Len(exps))]

\* calculate_walls: the contracts of one side beyond spot, any open interest
BeyondSpot(opts, side, S) ==
    LET Keep(opt) == opt.side = side /\ (IF side = "CALL" THEN opt.strike > S ELSE opt.strike < S)
    IN SelectSeq(opts, Keep)

\* [round(strike, 2) for strike, oi in rows[:top_n] if oi > 0]
WallStrikesOf(rows, n) ==
    LET Positive(opt) == opt.oi > 0
        kept == SelectSeq(Take(rows, n), Positive)
    IN [i \in 1..Len(kept) |-> Round2(kept[i].strike)]

calculate_walls(opts, S, n) ==
    [call_walls |-> WallStrikesOf(SortByOIDesc(BeyondSpot(opts, "CALL", S)), n),
     put_walls  |-> WallStrikesOf(SortByOIDesc(BeyondSpot(opts, "PUT", S)), n)]

----------------------------------------------------------------------------
(* local_server.calculate_gamma_exposure                                    *)
(* weighted open interest is counted in thousandths of a contract          *)

MaxLocalWalls == 3

WeightUnit == 1000

NoneValue == "None"

\* oi * weight, weight = 1 / (1 + distance / current_price)
WeightedOI(opt, price) ==
    IF price > 0
    THEN (opt.oi * WeightUnit * price) \div (price + Abs(opt.strike - price))
    ELSE opt.oi * WeightUnit

\* index of strike in strike_oi, 0 if it has no entry yet
StrikeIndex(strike_oi, strike) ==
    LET I == {k \in 1..Len(strike_oi) : strike_oi[k].strike = strike}
    IN IF I = {} THEN 0 ELSE CHOOSE k \in I : TRUE

\* strike_oi after the grouping loop, in insertion order
RECURSIVE StrikeOI(_, _)
StrikeOI(opts, price) ==
    IF opts = <<>> THEN <<>>
    ELSE LET rest == StrikeOI(SubSeq(opts, 1, Len(opts) - 1), price)
             opt == Last(opts)
             k == StrikeIndex(rest, opt.strike)
         IN IF k = 0
            THEN Append(rest, [strike |-> opt.strike, oi |-> WeightedOI(opt, price)])
            ELSE [rest EXCEPT ![k].oi = @ + WeightedOI(opt, price)]

RECURSIVE SumOI(_)
SumOI(rows) == IF rows = <<>> THEN 0 ELSE SumOI(SubSeq(rows, 1, Len(rows) - 1)) + Last(rows).oi

RECURSIVE SumStrikeOI(_)
SumStrikeOI(rows) ==
    IF rows = <<>> THEN 0
    ELSE SumStrikeOI(SubSeq(rows, 1, Len(rows) - 1)) + Last(rows).strike * Last(rows).oi

GammaWallsOf(rows) ==
    LET kept == Take(SortByOIDesc(rows), MaxLocalWalls)
    IN [i \in 1..Len(kept) |-> [strike |-> kept[i].strike, gamma |-> kept[i].oi]]

\* the weighted average of the strikes, round(gamma_flip, 2)
EstimatedFlip(call_rows, put_rows, price) ==
    LET total_call_oi == SumOI(call_rows)
        total_put_oi == SumOI(put_rows)
        call_weighted == SumStrikeOI(call_rows)
        put_weighted == SumStrikeOI(put_rows)
    IN IF total_call_oi + total_put_oi > 0
       THEN IF total_call_oi > 0 /\ total_put_oi > 0
            THEN 10 * RoundDiv(call_weighted + put_weighted, 10 * (total_call_oi + total_put_oi))
            ELSE IF total_call_oi > 0
                 THEN 10 * RoundDiv(call_weighted, 10 * total_call_oi)
                 ELSE IF total_put_oi > 0
                      THEN 10 * RoundDiv(put_weighted, 10 * total_put_oi)
                      ELSE price
       ELSE price

calculate_gamma_exposure(opts, price) ==
    IF opts = <<>>
    THEN [gamma_flip |-> NoneValue, call_walls |-> <<>>, put_walls |-> <<>>]
    ELSE LET strike_oi == StrikeOI(opts, price)
             AtOrAbove(row) == row.strike >= price
             Below(row) == row.strike < price
             call_strikes == SelectSeq(strike_oi, AtOrAbove)
             put_strikes == SelectSeq(strike_oi, Below)
         IN [gamma_flip |-> EstimatedFlip(call_strikes, put_strikes, price),
             call_walls |-> GammaWallsOf(call_strikes),
             put_walls  |-> GammaWallsOf(put_strikes)]

MaxWallLen == 2

SecondLen == 1

MaxTopN == 2

WallStrikes == {95000, 105000}

WallOI == {0, 1, 2}

WallSpots == {90000, 100000, 105000}

WallContracts == [strike: WallStrikes, side: {"CALL", "PUT"}, oi: WallOI, iv: {DefaultIV}]

\* no expiry, one expiry, or one expiry followed by a short second one
WallExpirySets ==
    {<<>>}
    \cup {<<[label |-> Labels[1], options |-> c]>> : c \in SeqsUpTo(WallContracts, MaxWallLen)}
    \cup {<<[label |-> Labels[1], options |-> c], [label |-> Labels[2], options |-> d]>> :
             c \in SeqsUpTo(WallContracts, MaxWallLen), d \in SeqsUpTo(WallContracts, SecondLen)}

InitWalls ==
    /\ spot \in WallSpots
    /\ T = OneDay
    /\ options = <<>>
    /\ expiries \in WallExpirySets
    /\ top_n \in 1..MaxTopN
    /\ expirations = <<>>
    /\ now = 0
    /\ out = NoCall

SelectWallsByExpiry ==
    /\ out = NoCall
    /\ out' = [fn |-> "select_walls_by_expiry",
               walls |-> select_walls_by_expiry(expiries, spot, top_n)]
    /\ UNCHANGED <<spot, T, options, expiries, top_n, expirations, now>>

\* generate_tradingview_levels: the walls of the first expiry
CalculateWalls ==
    /\ out = NoCall
    /\ expiries # <<>>
    /\ out' = [fn |-> "calculate_walls",
               walls |-> calculate_walls(expiries[1].options, spot, top_n)]
    /\ UNCHANGED <<spot, T, options, expiries, top_n, expirations, now>>

\* all_options = calls + puts
CallsFirst(opts) == \A i, j \in 1..Len(opts) : i < j /\ opts[i].side = "PUT" => opts[j].side = "PUT"

\* get_options: the legacy walls of one expiry
CalculateGammaExposure ==
    /\ out = NoCall
    /\ \E idx \in 1..Len(expiries) :
           /\ CallsFirst(expiries[idx].options)
           /\ out' = [fn |-> "calculate_gamma_exposure", idx |-> idx,
                      walls |-> calculate_gamma_exposure(expiries[idx].options, spot)]
    /\ UNCHANGED <<spot, T, options, expiries, top_n, expirations, now>>

NextWalls ==
    \/ SelectWallsByExpiry
    \/ CalculateWalls
    \/ CalculateGammaExposure

SpecWalls == InitWalls /\ [][NextWalls]_vars

FromWalls == out.fn = "select_walls_by_expiry"

\* the walls of a result list that carry the label of expiry idx
WallsOf(walls, idx) ==
    LET Mine(w) == w.expiry = expiries[idx].label
    IN SelectSeq(walls, Mine)

\* the contracts of expiry idx that may be call walls resp. put walls
CallsAbove(idx) ==
    LET Keep(opt) == opt.side = "CALL" /\ opt.oi > 0 /\ opt.strike > spot
    IN SelectSeq(expiries[idx].options, Keep)

PutsBelow(idx) ==
    LET Keep(opt) == opt.side = "PUT" /\ opt.oi > 0 /\ opt.strike < spot
    IN SelectSeq(expiries[idx].options, Keep)

\* walls are the top_n highest open interests of the eligible contracts
IsTopN(walls, eligible) ==
    /\ Len(walls) = Min(top_n, Len(eligible))
    /\ \A i \in 1..Len(walls) :
           /\ \E j \in 1..Len(eligible) :
                  Round2(eligible[j].strike) = walls[i].strike /\ eligible[j].oi = walls[i].oi
           /\ Cardinality({j \in 1..Len(eligible) : eligible[j].oi > walls[i].oi}) < top_n

\* C10 as stated: for each expiry the call walls are the top_n CALL strikes
\* by open interest among those above spot with OI > 0, the put walls the
\* top_n PUT strikes by open interest among those below spot with OI > 0
C10_WallsAreTopNBeyondSpot ==
    FromWalls =>
        \A idx \in 1..Len(expiries) :
            /\ IsTopN(WallsOf(out.walls.call_walls, idx), CallsAbove(idx))
            /\ IsTopN(WallsOf(out.walls.put_walls, idx), PutsBelow(idx))

----------------------------------------------------------------------------
(* Walls: input order, strikes at spot                                     *)

FromCalculateWalls == out.fn = "calculate_walls"

FromGammaExposure == out.fn = "calculate_gamma_exposure"

\* the orderings of a chain
Reorderings(opts) ==
    {[i \in 1..Len(opts) |-> opts[p[i]]] :
        p \in {q \in [1..Len(opts) -> 1..Len(opts)] :
                  \A i, j \in 1..Len(opts) : q[i] = q[j] => i = j}}

\* the expiry lists that hold the same contracts per expiry in some order
ReorderedExpiries ==
    {[idx \in 1..Len(expiries) |-> [label |-> expiries[idx].label, options |-> f[idx]]] :
        f \in {g \in [1..Len(expiries) ->
                        UNION {Reorderings(expiries[idx].options) : idx \in 1..Len(expiries)}] :
                  \A idx \in 1..Len(expiries) : g[idx] \in Reorderings(expiries[idx].options)}}

\* walls of equal open interest from one expiry are in ascending strike order
TiesByStrike(walls) ==
    \A i, j \in 1..Len(walls) :
        i < j /\ walls[i].oi = walls[j].oi /\ walls[i].expiry = walls[j].expiry
            => walls[i].strike <= walls[j].strike

\* C11 as stated: calculate_walls and select_walls_by_expiry return the same
\* call_walls and put_walls for every ordering of the same contracts, ties
\* in open interest being broken by ascending strike
C11_WallsIgnoreInputOrder ==
    /\ FromCalculateWalls =>
           \A opts \in Reorderings(expiries[1].options) :
               calculate_walls(opts, spot, top_n) = out.walls
    /\ FromWalls =>
           /\ \A exps \in ReorderedExpiries :
                  select_walls_by_expiry(exps, spot, top_n) = out.walls
           /\ TiesByStrike(out.walls.call_walls)
           /\ TiesByStrike(out.walls.put_walls)

\* the strikes at spot of the chain a wall function was given
AtSpot(opts) == {Round2(opts[j].strike) : j \in {i \in 1..Len(opts) : opts[i].strike = spot}}

\* C12 as stated: a strike equal to spot is in no call wall and no put wall
\* of calculate_walls, select_walls_by_expiry and calculate_gamma_exposure,
\* and no wall has open interest 0
C12_NoWallAtSpotNoEmptyWall ==
    /\ FromCalculateWalls =>
           /\ \A i \in 1..Len(out.walls.call_walls) : out.walls.call_walls[i] # Round2(spot)
           /\ \A i \in 1..Len(out.walls.put_walls) : out.walls.put_walls[i] # Round2(spot)
           /\ \A i \in 1..Len(out.walls.call_walls) :
                  \E j \in 1..Len(expiries[1].options) :
                      /\ Round2(expiries[1].options[j].strike) = out.walls.call_walls[i]
                      /\ expiries[1].options[j].side = "CALL"
                      /\ expiries[1].options[j].oi > 0
           /\ \A i \in 1..Len(out.walls.put_walls) :
                  \E j \in 1..Len(expiries[1].options) :
                      /\ Round2(expiries[1].options[j].strike) = out.walls.put_walls[i]
                      /\ expiries[1].options[j].side = "PUT"
                      /\ expiries[1].options[j].oi > 0
    /\ FromWalls =>
           \A w \in Range(out.walls.call_walls) \cup Range(out.walls.put_walls) :
               w.strike # Round2(spot) /\ w.oi > 0
    /\ FromGammaExposure =>
           \A w \in Range(out.walls.call_walls) \cup Range(out.walls.put_walls) :
               w.strike # spot /\ w.gamma > 0

----------------------------------------------------------------------------
(* select_expirations                                                       *)
(* a date string is the number of days since 2024-01-01, a Monday           *)

Friday == 4

MonthlyFirstDay == 15

MonthlyLastDay == 21

JanuaryDays == 31

\* datetime.strptime(date_str, '%Y-%m-%d').weekday(), Monday is 0
Weekday(date) == date % 7

\* datetime.strptime(date_str, '%Y-%m-%d').day, for January and February
DayOfMonth(date) == IF date < JanuaryDays THEN date + 1 ELSE date - JanuaryDays + 1

is_friday(date) == Weekday(date) = Friday

is_monthly(date) ==
    Weekday(date) = Friday /\ MonthlyFirstDay <= DayOfMonth(date) /\ DayOfMonth(date) <= MonthlyLastDay

is_weekly_friday(date) == is_friday(date) /\ ~is_monthly(date)

\* no test on the date: the fallback takes any unused one
AnyDate == "any"

\* the test a selection loop applies to a date
Passes(test, d) ==
    CASE test = "is_weekly_friday" -> is_weekly_friday(d)
      [] test = "is_friday" -> is_friday(d)
      [] test = "is_monthly" -> is_monthly(d)
      [] OTHER -> TRUE

\* the first date of exps from position from on that is not used and
\* passes the test, as an index; 0 if there is none
FirstUnused(exps, from, used, test) ==
    LET I == {i \in from..Len(exps) : exps[i] \notin used /\ Passes(test, exps[i])}
    IN IF I = {} THEN 0 ELSE CHOOSE i \in I : \A j \in I : i <= j

Entry(label, date) == [label |-> label, date |-> date]

\* the 0DTE step with the last date of the list
Step0DTELast(exps) ==
    [selected |-> <<Entry("0DTE", exps[Len(exps)])>>, used |-> {exps[Len(exps)]}]

\* 1. 0DTE - always the first
Step0DTE(exps) ==
    [selected |-> <<Entry("0DTE", exps[1])>>, used |-> {exps[1]}]

\* the WEEKLY step without the test that the date is not yet used
StepWeeklyReuse(st, exps) ==
    LET i == FirstUnused(exps, 1, {}, "is_weekly_friday")
    IN IF i = 0 THEN st
       ELSE [selected |-> Append(st.selected, Entry("WEEKLY", exps[i])),
             used |-> st.used \cup {exps[i]}]

\* 2. WEEKLY - the first unused Friday that is not monthly
StepWeekly(st, exps) ==
    LET i == FirstUnused(exps, 1, st.used, "is_weekly_friday")
    IN IF i = 0 THEN st
       ELSE [selected |-> Append(st.selected, Entry("WEEKLY", exps[i])),
             used |-> st.used \cup {exps[i]}]

\* the MONTHLY step with any Friday
StepMonthlyAnyFriday(st, exps) ==
    LET i == FirstUnused(exps, 1, st.used, "is_friday")
    IN IF i = 0 THEN st
       ELSE [selected |-> Append(st.selected, Entry("MONTHLY", exps[i])),
             used |-> st.used \cup {exps[i]}]

\* 3. MONTHLY - the first unused third Friday
StepMonthly(st, exps) ==
    LET i == FirstUnused(exps, 1, st.used, "is_monthly")
    IN IF i = 0 THEN st
       ELSE [selected |-> Append(st.selected, Entry("MONTHLY", exps[i])),
             used |-> st.used \cup {exps[i]}]

\* selected.insert(1, entry)
InsertSecond(selected, entry) ==
    <<selected[1], entry>> \o SubSeq(selected, 2, Len(selected))

\* fallback when fewer than 2 entries are selected: the first unused Friday
FallbackWeekly(st, exps) ==
    IF Len(st.selected) < 2
    THEN LET i == FirstUnused(exps, 1, st.used, "is_friday")
         IN IF i = 0 THEN st
            ELSE [selected |-> InsertSecond(st.selected, Entry("WEEKLY", exps[i])),
                  used |-> st.used \cup {exps[i]}]
    ELSE st

\* fallback when fewer than 3 entries are selected: the first unused date
FallbackMonthly(st, exps) ==
    IF Len(st.selected) < 3
    THEN LET i == FirstUnused(exps, 1, st.used, AnyDate)
         IN IF i = 0 THEN st
            ELSE [selected |-> Append(st.selected, Entry("MONTHLY", exps[i])),
                  used |-> st.used]
    ELSE st

\* scripts/fetch_options_data.py
select_expirations(exps) ==
    IF exps = <<>> THEN <<>>
    ELSE FallbackMonthly(
             FallbackWeekly(StepMonthly(StepWeekly(Step0DTE(exps), exps), exps), exps),
             exps).selected

\* scripts/local_server.py: the same steps
local_select_expirations(exps) ==
    IF exps = <<>> THEN <<>>
    ELSE FallbackMonthly(
             FallbackWeekly(StepMonthly(StepWeekly(Step0DTE(exps), exps), exps), exps),
             exps).selected

\* backend/main.py, 2. WEEKLY - the first date of expirations[1:] not used
BackendStepWeekly(st, exps) ==
    LET i == FirstUnused(exps, 2, st.used, AnyDate)
    IN IF i = 0 THEN st
       ELSE [selected |-> Append(st.selected, Entry("WEEKLY", exps[i])),
             used |-> st.used \cup {exps[i]}]

\* backend/main.py, the loop that fills up with EXTRA_EXP entries
RECURSIVE BackendExtras(_, _, _)
BackendExtras(st, exps, i) ==
    IF i > Len(exps) THEN st
    ELSE IF exps[i] \notin st.used
         THEN LET next == [selected |-> Append(st.selected, Entry("EXTRA_EXP", exps[i])),
                           used |-> st.used \cup {exps[i]}]
              IN IF Len(next.selected) = 3 THEN next ELSE BackendExtras(next, exps, i + 1)
         ELSE BackendExtras(st, exps, i + 1)

backend_select_expirations(exps) ==
    IF exps = <<>> THEN <<>>
    ELSE LET st == StepMonthly(BackendStepWeekly(Step0DTE(exps), exps), exps)
         IN IF Len(st.selected) < 3 THEN BackendExtras(st, exps, 1).selected ELSE st.selected

MaxDates == 4

\* Mon 8 Jan, Fri 12 Jan, Wed 17 Jan, Fri 19 Jan, Fri 26 Jan, Fri 16 Feb,
\* Tue 20 Feb
AvailableDates == {7, 11, 16, 18, 25, 46, 50}

InitExpirations ==
    /\ spot = 0
    /\ T = 0
    /\ options = <<>>
    /\ expiries = <<>>
    /\ top_n = 0
    /\ expirations \in SeqsUpTo(AvailableDates, MaxDates)
    /\ now = 0
    /\ out = NoCall

SelectExpirations ==
    /\ out = NoCall
    /\ out' = [fn |-> "select_expirations", selected |-> select_expirations(expirations)]
    /\ UNCHANGED <<spot, T, options, expiries, top_n, expirations, now>>

LocalSelectExpirations ==
    /\ out = NoCall
    /\ out' = [fn |-> "local_select_expirations",
               selected |-> local_select_expirations(expirations)]
    /\ UNCHANGED <<spot, T, options, expiries, top_n, expirations, now>>

BackendSelectExpirations ==
    /\ out = NoCall
    /\ out' = [fn |-> "backend_select_expirations",
               selected |-> backend_select_expirations(expirations)]
    /\ UNCHANGED <<spot, T, options, expiries, top_n, expirations, now>>

NextExpirations ==
    \/ SelectExpirations
    \/ LocalSelectExpirations
    \/ BackendSelectExpirations

SpecExpirations == InitExpirations /\ [][NextExpirations]_vars

----------------------------------------------------------------------------
(* Expiry selection                                                         *)

FromScripts == out.fn \in {"select_expirations", "local_select_expirations"}

FromSelect == FromScripts \/ out.fn = "backend_select_expirations"

\* the input is sorted by calendar date
Ascending(exps) == \A i, j \in 1..Len(exps) : i < j => exps[i] <= exps[j]

\* C13: every select_expirations returns at most 3 entries, no date occurs
\* in more than one entry, and the empty input yields the empty output
C13_AtMostThreeDistinctDates ==
    FromSelect =>
        /\ Len(out.selected) <= 3
        /\ \A i, j \in 1..Len(out.selected) :
               out.selected[i].date = out.selected[j].date => i = j
        /\ \A i \in 1..Len(out.selected) : out.selected[i].date \in Range(expirations)
        /\ expirations = <<>> => out.selected = <<>>

C13_Witness ==
    /\ out.fn = "select_expirations"
    /\ Len(out.selected) = 3
    /\ expirations[1] = expirations[2]
    /\ is_weekly_friday(expirations[1])

\* positions after the first date that hold a weekly resp. a monthly Friday
WeeklyAfterFirst ==
    {i \in 1..Len(expirations) : expirations[i] > expirations[1] /\ is_weekly_friday(expirations[i])}

MonthlyAfterFirst ==
    {i \in 1..Len(expirations) : expirations[i] > expirations[1] /\ is_monthly(expirations[i])}

Lowest(I) == CHOOSE i \in I : \A j \in I : i <= j

\* C14: for an ascending list with a weekly and a monthly Friday after the
\* first date, the scripts return 0DTE with the first date, WEEKLY with the
\* first such weekly Friday and MONTHLY with the first such monthly Friday
C14_ThreeBucketsWhenBothFridaysExist ==
    FromScripts /\ expirations # <<>> /\ Ascending(expirations)
      /\ WeeklyAfterFirst # {} /\ MonthlyAfterFirst # {} =>
        out.selected = <<Entry("0DTE", expirations[1]),
                         Entry("WEEKLY", expirations[Lowest(WeeklyAfterFirst)]),
                         Entry("MONTHLY", expirations[Lowest(MonthlyAfterFirst)])>>

C14_Witness ==
    /\ out.fn = "local_select_expirations"
    /\ Ascending(expirations)
    /\ WeeklyAfterFirst # {} /\ MonthlyAfterFirst # {}
    /\ Len(expirations) = MaxDates
    /\ Cardinality(WeeklyAfterFirst) = 2
    /\ Lowest(MonthlyAfterFirst) > Lowest(WeeklyAfterFirst) + 1
    /\ out.selected[3].date = expirations[MaxDates]

\* C15 as stated: select_expirations of fetch_options_data.py returns
\* min(3, k) entries, k the number of distinct dates of its input
C15_LengthIsMinOfThreeAndDates ==
    out.fn = "select_expirations" =>
        Len(out.selected) = Min(3, Cardinality(Range(expirations)))

\* C16 as stated: a MONTHLY entry of the scripts holds a date that satisfies
\* the monthly predicate, the first such date of the input not used by the
\* entries before it
C16_MonthlyEntryIsMonthlyDate ==
    FromScripts =>
        \A i \in 1..Len(out.selected) :
            out.selected[i].label = "MONTHLY" =>
                /\ is_monthly(out.selected[i].date)
                /\ LET before == {out.selected[j].date : j \in 1..(i - 1)}
                       k == FirstUnused(expirations, 1, before, "is_monthly")
                   IN k # 0 /\ expirations[k] = out.selected[i].date

\* the dates used by the 0DTE and the MONTHLY step when no weekly Friday
\* is found
UsedWithoutWeekly == StepMonthly(Step0DTE(expirations), expirations).used

\* C17 as stated: when no date qualifies as weekly Friday but a Friday is
\* unused after the 0DTE and MONTHLY steps, the first such Friday is
\* inserted as WEEKLY at position 1, right after the 0DTE entry
C17_FallbackWeeklyAfterZeroDTE ==
    FromScripts /\ expirations # <<>>
      /\ FirstUnused(expirations, 1, {expirations[1]}, "is_weekly_friday") = 0
      /\ FirstUnused(expirations, 1, UsedWithoutWeekly, "is_friday") # 0 =>
        /\ Len(out.selected) >= 2
        /\ out.selected[2] =
               Entry("WEEKLY",
                     expirations[FirstUnused(expirations, 1, UsedWithoutWeekly, "is_friday")])

\* C18 as stated: for an input in ascending order the dates of the returned
\* entries are ascending
C18_OutputDatesAscending ==
    FromScripts /\ Ascending(expirations) =>
        \A i, j \in 1..Len(out.selected) :
            i < j => out.selected[i].date <= out.selected[j].date

\* C18 amended: for an input in ascending order the first entry holds the
\* first date and every other entry a later date; only the third entry,
\* labelled MONTHLY, can hold an earlier date than the entry before it
C18_FirstDateThenLaterDates ==
    FromScripts /\ Ascending(expirations) /\ expirations # <<>> =>
        /\ out.selected[1] = Entry("0DTE", expirations[1])
        /\ \A i \in 2..Len(out.selected) : out.selected[i].date > out.selected[1].date
        /\ \A i, j \in 1..Len(out.selected) :
               i < j /\ out.selected[i].date > out.selected[j].date =>
                   i = 2 /\ j = 3 /\ out.selected[j].label = "MONTHLY"

C18_Witness ==
    /\ out.fn = "select_expirations"
    /\ Ascending(expirations)
    /\ Len(out.selected) = 3
    /\ out.selected[2].date > out.selected[3].date
    /\ is_weekly_friday(out.selected[2].date)
    /\ is_monthly(out.selected[3].date)

----------------------------------------------------------------------------
(* calculate_black_scholes_gamma as a call: its value or the exception      *)
(* an implied volatility is iv * 10^iv_exp percent                          *)

\* sys.float_info.max_10_exp: a float result above 10^308 is out of range
MaxFloatExp10 == 308

HugeExp == 200

\* iv ** 2 raises OverflowError; exact for iv_exp = 0 and for iv_exp past
\* half the float range
SquareOverflows(iv, iv_exp) == iv # 0 /\ 2 * iv_exp - 4 > MaxFloatExp10

Returned(value) == [raised |-> "none", gamma |-> value]

Raised(exception) == [raised |-> exception, gamma |-> 0]

\* scripts/fetch_options_data.py: math.log(spot / strike) is evaluated first
\* and its ValueError or ZeroDivisionError is caught; OverflowError is not
\* in the except clause
call_black_scholes_gamma(S, K, t, r4, iv, iv_exp) ==
    IF iv <= 0 \/ t <= 0 \/ S <= 0 THEN Returned(0)
    ELSE IF K <= 0 THEN Returned(0)
    ELSE IF SquareOverflows(iv, iv_exp) THEN Raised("OverflowError")
    ELSE Returned(calculate_black_scholes_gamma(S, K, t, r4, iv))

\* scripts/local_server.py
local_call_black_scholes_gamma(S, K, t, r4, sigma, sigma_exp) ==
    IF t <= 0 \/ sigma <= 0 \/ S <= 0 \/ K <= 0 THEN Returned(0)
    ELSE IF SquareOverflows(sigma, sigma_exp) THEN Raised("OverflowError")
    ELSE Returned(local_calculate_black_scholes_gamma(S, K, t, r4, sigma))

GammaSpots == {-100000, 0, 100000}

GammaTimes == {-27, 0, 27, 2500}

GammaStrikes == {-100000, 0, 95000, 100000}

GammaIVs == {-30, 0, 1, 30, 80}

GammaContracts ==
    [strike: GammaStrikes, side: {"CALL"}, oi: {1}, iv: GammaIVs, iv_exp: {0, HugeExp}]

InitGamma ==
    /\ spot \in GammaSpots
    /\ T \in GammaTimes
    /\ options \in {<<c>> : c \in GammaContracts}
    /\ expiries = <<>>
    /\ top_n = 0
    /\ expirations = <<>>
    /\ now = 0
    /\ out = NoCall

CalculateBlackScholesGamma ==
    /\ out = NoCall
    /\ out' = [fn |-> "calculate_black_scholes_gamma",
               result |-> call_black_scholes_gamma(spot, options[1].strike, T, RiskFreeRate4,
                                                   options[1].iv, options[1].iv_exp)]
    /\ UNCHANGED <<spot, T, options, expiries, top_n, expirations, now>>

LocalCalculateBlackScholesGamma ==
    /\ out = NoCall
    /\ out' = [fn |-> "local_calculate_black_scholes_gamma",
               result |-> local_call_black_scholes_gamma(spot, options[1].strike, T,
                                                         RiskFreeRate4, options[1].iv,
                                                         options[1].iv_exp)]
    /\ UNCHANGED <<spot, T, options, expiries, top_n, expirations, now>>

NextGamma ==
    \/ CalculateBlackScholesGamma
    \/ LocalCalculateBlackScholesGamma

SpecGamma == InitGamma /\ [][NextGamma]_vars

FromGamma ==
    out.fn \in {"calculate_black_scholes_gamma", "local_calculate_black_scholes_gamma"}

\* spot, strike, implied volatility or T is not positive
DegenerateGammaInput ==
    spot <= 0 \/ options[1].strike <= 0 \/ options[1].iv <= 0 \/ T <= 0

\* C19 as stated: both calculate_black_scholes_gamma return 0.0 without an
\* exception when spot, strike, implied volatility or T is not positive,
\* and a value >= 0 for all other inputs
C19_GammaIsZeroOrPositive ==
    FromGamma =>
        /\ out.result.raised = "none"
        /\ DegenerateGammaInput => out.result.gamma = 0
        /\ out.result.gamma >= 0

----------------------------------------------------------------------------
(* Chains with malformed contracts                                          *)

MaxMalformedLen == 2

\* opt.get('side') of a contract without a side is None
NoSide == "None"

MalformedStrikes == {-95000, 95000, 105000}

MalformedOI == {-5, 5, 10}

MalformedContracts ==
    [strike: MalformedStrikes, side: {"CALL", "PUT", NoSide}, oi: MalformedOI, iv: {DefaultIV}]

InitMalformed ==
    /\ spot = 100000
    /\ T = OneDay
    /\ options \in SeqsUpTo(MalformedContracts, MaxMalformedLen)
    /\ expiries = <<>>
    /\ top_n = 0
    /\ expirations = <<>>
    /\ now = 0
    /\ out = NoCall

NextMalformed == CalculateQuantMetrics

SpecMalformed == InitMalformed /\ [][NextMalformed]_vars

\* a contract with a positive strike, a side and no negative open interest
IsValidContract(opt) == opt.strike > 0 /\ opt.side \in {"CALL", "PUT"} /\ opt.oi >= 0

\* C20 as stated: a malformed contract (strike <= 0, no CALL or PUT side,
\* negative open interest) is dropped when the contracts are grouped by
\* strike: total GEX, gamma flip and max pain are those of the other
\* contracts of the chain
C20_MalformedContractsAreDropped ==
    FromFetch =>
        LET valid == calculate_quant_metrics(SelectSeq(options, IsValidContract), spot, T)
        IN /\ out.total_gex = valid.total_gex
           /\ out.gamma_flip = valid.gamma_flip
           /\ out.max_pain = valid.max_pain

----------------------------------------------------------------------------
(* Calls with numerically degenerate input                                  *)

\* the outcome of a call: the value it returns or the exception it raises
Result(value) == [raised |-> "none", value |-> value]

Failure(exception) == [raised |-> exception, value |-> <<>>]

\* abs(other_strike - strike) / strike <= tolerance_pct for strike > 0, the
\* tolerance in thousandths
NearFirst(other_strike, strike, tol) == 1000 * Abs(other_strike - strike) <= tol * strike

\* common_strikes for the order in which the first strike set is iterated:
\* the strikes of the first expiry that every other expiry holds a strike near
CommonStrikes(exps, order, tol) ==
    LET FoundInAll(strike) ==
            \A idx \in 2..Len(exps) :
                \E other_strike \in StrikeSet(exps[idx]) : NearFirst(other_strike, strike, tol)
        Common(i) == FoundInAll(order[i])
        I == {i \in 1..Len(order) : Common(i)}
        pos == SortedKeys(I)
    IN [k \in 1..Len(pos) |-> [key |-> order[pos[k]]]]

\* round(abs(s - spot) / spot * 100, 2) for spot # 0, in hundredths of a
\* percent; the quotient is negative for a negative spot
SignedDistancePct(s, S) ==
    IF S > 0 THEN RoundDiv(10000 * Abs(s - S), S)
    ELSE -RoundDiv(10000 * Abs(s - S), -S)

\* the result list: the division by spot is evaluated once per listed strike
DistanceList(sorted, cap, S) ==
    IF sorted # <<>> /\ S = 0 THEN Failure("ZeroDivisionError")
    ELSE Result([i \in 1..Min(cap, Len(sorted)) |->
                    [strike |-> sorted[i].key,
                     distance_pct |-> SignedDistancePct(sorted[i].key, S)]])

\* find_resonance_levels for chains of positive strikes
call_find_resonance_levels(exps, order, S, tol) ==
    IF Len(exps) < 3 THEN Result(<<>>)
    ELSE DistanceList(SortByDistance(CommonStrikes(exps, order, tol), S), MaxResonance, S)

call_find_confluence_levels(exps, orders, S, tol) ==
    IF Len(exps) < 2 THEN Result(<<>>)
    ELSE DistanceList(SortByDistance(ConfluenceStrikes(StrikeCounts(orders, tol)), S),
                      MaxConfluence, S)

DegenerateSpots == {-100000, 0, 100000}

DegenerateTimes == {-OneDay, 0, OneDay}

DegenerateIVs == {0, DefaultIV}

\* two strikes within 0.5% of each other
DegenerateStrikes == {99800, 100200}

\* chains of distinct positive strikes in ascending order, the empty chain
\* among them
DegenerateChains(iv) ==
    {[i \in 1..Len(SortedKeys(K)) |-> [StrikeOnly(SortedKeys(K)[i]) EXCEPT !.iv = iv]] :
        K \in SUBSET DegenerateStrikes}

DegenerateExpirySets ==
    UNION {{[idx \in 1..Len(chains) |-> [label |-> Labels[idx], options |-> chains[idx]]] :
               chains \in SeqsUpTo(DegenerateChains(iv), MaxExpiries)} : iv \in DegenerateIVs}

InitDegenerate ==
    /\ spot \in DegenerateSpots
    /\ T \in DegenerateTimes
    /\ expiries \in DegenerateExpirySets
    /\ options = IF expiries = <<>> THEN <<>> ELSE expiries[1].options
    /\ top_n = 0
    /\ expirations = <<>>
    /\ now = 0
    /\ out = NoCall

CallCalculateGammaFlip ==
    /\ out = NoCall
    /\ out' = [fn |-> "calculate_gamma_flip"]
                 @@ Result(calculate_gamma_flip(options, spot, T, RiskFreeRate4))
    /\ UNCHANGED <<spot, T, options, expiries, top_n, expirations, now>>

CallCalculateMaxPain ==
    /\ out = NoCall
    /\ out' = [fn |-> "calculate_max_pain"] @@ Result(calculate_max_pain(options, spot))
    /\ UNCHANGED <<spot, T, options, expiries, top_n, expirations, now>>

CallCalculateTotalGex ==
    /\ out = NoCall
    /\ out' = [fn |-> "calculate_total_gex"]
                 @@ Result(calculate_total_gex(options, spot, T, RiskFreeRate4))
    /\ UNCHANGED <<spot, T, options, expiries, top_n, expirations, now>>

CallFindResonanceLevels ==
    /\ out = NoCall
    /\ \E order \in (IF expiries = <<>> THEN {<<>>} ELSE Orders(StrikeSet(expiries[1]))) :
           out' = [fn |-> "find_resonance_levels"]
                     @@ call_find_resonance_levels(expiries, order, spot, ResonanceTolerance)
    /\ UNCHANGED <<spot, T, options, expiries, top_n, expirations, now>>

CallFindConfluenceLevels ==
    /\ out = NoCall
    /\ \E orders \in IterationOrders(expiries) :
           out' = [fn |-> "find_confluence_levels"]
                     @@ call_find_confluence_levels(expiries, orders, spot, ConfluenceTolerance)
    /\ UNCHANGED <<spot, T, options, expiries, top_n, expirations, now>>

CallFindResonanceLevelsEnhanced ==
    /\ out = NoCall
    /\ out' = [fn |-> "find_resonance_levels_enhanced"]
                 @@ Result(find_resonance_levels_enhanced(expiries, spot, ResonanceTolerance))
    /\ UNCHANGED <<spot, T, options, expiries, top_n, expirations, now>>

CallFindConfluenceLevelsEnhanced ==
    /\ out = NoCall
    /\ out' = [fn |-> "find_confluence_levels_enhanced"]
                 @@ Result(find_confluence_levels_enhanced(expiries, spot, ConfluenceTolerance))
    /\ UNCHANGED <<spot, T, options, expiries, top_n, expirations, now>>

NextDegenerate ==
    \/ CallCalculateGammaFlip
    \/ CallCalculateMaxPain
    \/ CallCalculateTotalGex
    \/ CallFindResonanceLevels
    \/ CallFindConfluenceLevels
    \/ CallFindResonanceLevelsEnhanced
    \/ CallFindConfluenceLevelsEnhanced

SpecDegenerate == InitDegenerate /\ [][NextDegenerate]_vars

\* C21 as stated: no analytics function raises for numerically degenerate
\* input (spot 0 or negative, implied volatility 0, time to expiry 0 or
\* negative, empty strike set): every call in the degenerate input space
\* returns a value
C21_NoAnalyticsCallRaises == out # NoCall => out.raised = "none"

----------------------------------------------------------------------------
(* Time to expiry, read from the system clock                               *)

\* the clock counts half days since 2024-01-01 00:00
ClockPerDay == 2

DaysPerYear == 365

\* local_server.py: the floor 0.0001 and the default 0.01 of T
MinT == 1

DefaultT == 100

\* days of the months of 2024
DaysInMonth == <<31, 29, 31, 30, 31, 30, 31, 31, 30, 31, 30, 31>>

\* a date string: the year, month and day it spells, or text that does not
\* match '%Y-%m-%d'
DateString(month, day) == [matches |-> TRUE, year |-> 2024, month |-> month, day |-> day]

NoDate == [matches |-> FALSE]

RECURSIVE DaysBefore(_)
DaysBefore(month) == IF month = 1 THEN 0 ELSE DaysInMonth[month - 1] + DaysBefore(month - 1)

\* datetime.strptime(expiry_date, '%Y-%m-%d'): the day number of the date,
\* or ValueError
strptime(expiry_date) ==
    IF /\ expiry_date.matches
       /\ expiry_date.month \in 1..12
       /\ expiry_date.day \in 1..DaysInMonth[expiry_date.month]
    THEN Result(DaysBefore(expiry_date.month) + expiry_date.day - 1)
    ELSE Failure("ValueError")

\* (expiry - now).days: whole days, rounded down
DaysTo(expiry, clock) == (expiry * ClockPerDay - clock) \div ClockPerDay

\* days / 365.0 in 1e-4 year, rounded down
Years4(days) == (days * 10000) \div DaysPerYear

\* the time to expiry without the floor of one day
TimeToExpiryNoFloor(expiry_date, clock) ==
    LET expiry == strptime(expiry_date)
    IN IF expiry.raised # "none" THEN Years4(1)
       ELSE Years4(DaysTo(expiry.value, clock))

\* scripts/fetch_options_data.py
calculate_time_to_expiry(expiry_date, clock) ==
    LET expiry == strptime(expiry_date)
    IN IF expiry.raised # "none" THEN Years4(1)
       ELSE Years4(Max(DaysTo(expiry.value, clock), 1))

\* scripts/local_server.py, calculate_quant_metrics: T
local_time_to_expiry(expiry_date, clock) ==
    LET expiry == strptime(expiry_date)
    IN IF expiry.raised # "none" THEN DefaultT
       ELSE Max(Years4(DaysTo(expiry.value, clock)), MinT)

MaxClock == 6

ClockDates ==
    {DateString(1, 1), DateString(1, 2), DateString(1, 5), DateString(2, 30),
     DateString(13, 1), NoDate}

ClockChains ==
    {<<>>,
     <<[strike |-> 100000, side |-> "CALL", oi |-> 10, iv |-> DefaultIV]>>,
     <<[strike |-> 95000, side |-> "CALL", oi |-> 10, iv |-> DefaultIV],
       [strike |-> 105000, side |-> "PUT", oi |-> 5, iv |-> DefaultIV]>>}

\* expirations holds the expiry_date argument
InitClock ==
    /\ spot = 100000
    /\ T = 0
    /\ options \in ClockChains
    /\ expiries = <<>>
    /\ top_n = 0
    /\ expirations \in {<<d>> : d \in ClockDates}
    /\ now \in 0..MaxClock
    /\ out = NoCall

\* time passes
Tick ==
    /\ now < MaxClock
    /\ now' = now + 1
    /\ UNCHANGED <<spot, T, options, expiries, top_n, expirations, out>>

\* the calls made so far with the arguments of the state
CallsOf(fn) == IF out.fn = fn THEN out.calls ELSE <<>>

\* calculate_quant_metrics(options, spot, expiry_date), called at most twice
CalculateQuantMetricsNow ==
    /\ out.fn \in {"none", "calculate_quant_metrics"}
    /\ Len(CallsOf("calculate_quant_metrics")) < 2
    /\ LET t == calculate_time_to_expiry(expirations[1], now)
       IN out' = [fn |-> "calculate_quant_metrics",
                  calls |-> Append(CallsOf("calculate_quant_metrics"),
                                   [T |-> t, metrics |-> calculate_quant_metrics(options, spot, t)])]
    /\ UNCHANGED <<spot, T, options, expiries, top_n, expirations, now>>

LocalCalculateQuantMetricsNow ==
    /\ out.fn \in {"none", "local_calculate_quant_metrics"}
    /\ Len(CallsOf("local_calculate_quant_metrics")) < 2
    /\ LET t == local_time_to_expiry(expirations[1], now)
       IN out' = [fn |-> "local_calculate_quant_metrics",
                  calls |-> Append(CallsOf("local_calculate_quant_metrics"),
                                   [T |-> t,
                                    metrics |-> local_calculate_quant_metrics(
                                                    SelectSeq(options, IsCall),
                                                    SelectSeq(options, IsPut), spot, t)])]
    /\ UNCHANGED <<spot, T, options, expiries, top_n, expirations, now>>

NextClock ==
    \/ Tick
    \/ CalculateQuantMetricsNow
    \/ LocalCalculateQuantMetricsNow

SpecClock == InitClock /\ [][NextClock]_vars

\* C22: the time to expiry handed to the Black-Scholes gamma is strictly
\* positive for every expiry date string and every clock value:
\* calculate_time_to_expiry returns at least 1/365 and local_server's
\* calculate_quant_metrics uses T >= 0.0001
C22_TimeToExpiryIsPositive ==
    /\ out.fn = "calculate_quant_metrics" =>
           \A i \in 1..Len(out.calls) : out.calls[i].T >= OneDay /\ out.calls[i].T > 0
    /\ out.fn = "local_calculate_quant_metrics" =>
           \A i \in 1..Len(out.calls) : out.calls[i].T >= MinT /\ out.calls[i].T > 0

\* an expiry in the past and a call of each kind of date
C22_Witness ==
    /\ out.fn = "calculate_quant_metrics"
    /\ Len(out.calls) = 2
    /\ strptime(expirations[1]).raised = "none"
    /\ DaysTo(strptime(expirations[1]).value, now) < 0

\* C23 as stated: computing the analytics twice with identical inputs (same
\* options, spot and expiry date) yields identical output, whatever the
\* system clock shows at the two calls
C23_SameInputsSameOutput ==
    out.fn \in {"calculate_quant_metrics", "local_calculate_quant_metrics"}
        /\ Len(out.calls) = 2
    => out.calls[1].metrics = out.calls[2].metrics

----------------------------------------------------------------------------
(* Put/call ratios and volatility skew, scripts/local_server.py             *)

\* an Optional[int]: None or a number
NoVolume == <<>>

Volume(v) == <<v>>

\* volume or 0
OrZero(optional) == IF optional = <<>> THEN 0 ELSE optional[1]

\* the volume stored for the last contract of the list at strike K
VolumeAt(contracts, K) ==
    LET I == {i \in 1..Len(contracts) : contracts[i].strike = K}
    IN OrZero(contracts[CHOOSE i \in I : \A j \in I : j <= i].volume)

\* strikes_data of calculate_quant_metrics with the two volume keys
VolumeBucket(bucket, calls, puts) ==
    [strike |-> bucket.strike,
     has_call |-> bucket.has_call, call_oi |-> bucket.call_oi, call_iv |-> bucket.call_iv,
     call_volume |-> IF bucket.has_call THEN VolumeAt(calls, bucket.strike) ELSE 0,
     has_put |-> bucket.has_put, put_oi |-> bucket.put_oi, put_iv |-> bucket.put_iv,
     put_volume |-> IF bucket.has_put THEN VolumeAt(puts, bucket.strike) ELSE 0]

VolumeStrikesData(calls, puts) ==
    LET map == StrikesMap(calls, puts)
    IN [i \in 1..Len(map) |-> VolumeBucket(map[i], calls, puts)]

\* s.get('call_volume', default)
GetCallVolume(s, default) == IF s.has_call THEN s.call_volume ELSE default

GetPutVolume(s, default) == IF s.has_put THEN s.put_volume ELSE default

\* sum(values)
RECURSIVE SumSeq(_)
SumSeq(values) == IF values = <<>> THEN 0 ELSE values[1] + SumSeq(Tail(values))

\* round(num / den, 3) in thousandths; the division raises for den = 0
Divide3(num, den) ==
    IF den = 0 THEN Failure("ZeroDivisionError") ELSE Result(RoundDiv(1000 * num, den))

\* the ratio without its test of the denominator
RatioUnguarded(num, den) == Divide3(num, den)

\* num / den if den > 0 else 0.0
Ratio(num, den) == IF den > 0 THEN Divide3(num, den) ELSE Result(0)

WeightedPut(data) ==
    SumSeq([i \in 1..Len(data) |-> LET s == data[i] IN GetPutOI(s) * GetPutVolume(s, 1)])

WeightedCall(data) ==
    SumSeq([i \in 1..Len(data) |-> LET s == data[i] IN GetCallOI(s) * GetCallVolume(s, 1)])

calculate_weighted_pcr(data) == Ratio(WeightedPut(data), WeightedCall(data))

\* min(1, oi / 1000) summed over the strikes on one side of spot, in
\* thousandths
DeltaCap == 1000

TotalPutDelta(data, S) ==
    SumSeq([i \in 1..Len(data) |-> LET s == data[i] IN IF s.strike < S THEN Min(DeltaCap, GetPutOI(s)) ELSE 0])

TotalCallDelta(data, S) ==
    SumSeq([i \in 1..Len(data) |-> LET s == data[i] IN IF s.strike > S THEN Min(DeltaCap, GetCallOI(s)) ELSE 0])

calculate_delta_adjusted_pcr(data, S) == Ratio(TotalPutDelta(data, S), TotalCallDelta(data, S))

TotalCallOI(data) == SumSeq([i \in 1..Len(data) |-> GetCallOI(data[i])])

TotalPutOI(data) == SumSeq([i \in 1..Len(data) |-> GetPutOI(data[i])])

TotalCallVol(data) == SumSeq([i \in 1..Len(data) |-> LET s == data[i] IN GetCallVolume(s, 0)])

TotalPutVol(data) == SumSeq([i \in 1..Len(data) |-> LET s == data[i] IN GetPutVolume(s, 0)])

calculate_put_call_ratios(data, S) ==
    [oi_based       |-> Ratio(TotalPutOI(data), TotalCallOI(data)),
     volume_based   |-> Ratio(TotalPutVol(data), TotalCallVol(data)),
     weighted       |-> calculate_weighted_pcr(data),
     delta_adjusted |-> calculate_delta_adjusted_pcr(data, S)]

\* s.get('put_iv', 0) and s.get('call_iv', 0)
GetPutIVOrZero(s) == IF s.has_put THEN s.put_iv ELSE 0

GetCallIVOrZero(s) == IF s.has_call THEN s.call_iv ELSE 0

\* s['strike'] < spot * 0.95
IsOtmPutStrike(K, S) == 100 * K < 95 * S

\* s['strike'] > spot * 1.05
IsOtmCallStrike(K, S) == 100 * K > 105 * S

\* round(sum / n, 4) of implied volatilities in percent, in 1e-4; 0.0 for n = 0
Mean4(sum, n) == IF n = 0 THEN 0 ELSE RoundDiv(100 * sum, n)

\* round((put_sum / put_n) / (call_sum / call_n), 3) in thousandths, 1.0 if
\* the call average is not positive
SkewRatio(put_sum, put_n, call_sum, call_n) ==
    IF call_n > 0 /\ call_sum > 0
    THEN (IF put_n = 0 THEN 0 ELSE RoundDiv(1000 * put_sum * call_n, call_sum * put_n))
    ELSE 1000

\* skew_ratio > 1.2 is a smirk, skew_ratio < 0.9 a reverse smirk
SkewType(put_sum, put_n, call_sum, call_n) ==
    IF ~(call_n > 0 /\ call_sum > 0) THEN "flat"
    ELSE IF put_n = 0 THEN "reverse_smirk"
    ELSE IF 10 * put_sum * call_n > 12 * call_sum * put_n THEN "smirk"
    ELSE IF 10 * put_sum * call_n < 9 * call_sum * put_n THEN "reverse_smirk"
    ELSE "flat"

analyze_volatility_skew(data, S) ==
    LET IsOtmPut(s) == IsOtmPutStrike(s.strike, S)
        IsOtmCall(s) == IsOtmCallStrike(s.strike, S)
        otm_puts == SelectSeq(data, IsOtmPut)
        otm_calls == SelectSeq(data, IsOtmCall)
        put_sum == SumSeq([i \in 1..Len(otm_puts) |-> GetPutIVOrZero(otm_puts[i])])
        call_sum == SumSeq([i \in 1..Len(otm_calls) |-> GetCallIVOrZero(otm_calls[i])])
    IN [put_iv_avg  |-> Mean4(put_sum, Len(otm_puts)),
        call_iv_avg |-> Mean4(call_sum, Len(otm_calls)),
        skew_ratio  |-> SkewRatio(put_sum, Len(otm_puts), call_sum, Len(otm_calls)),
        skew_type   |-> SkewType(put_sum, Len(otm_puts), call_sum, Len(otm_calls))]

MaxRatioLen == 2

RatioStrikes == {90000, 110000}

RatioOI == {0, 5, 2000}

RatioVolumes == {NoVolume, Volume(0), Volume(2)}

RatioContracts ==
    [strike : RatioStrikes, side : {"CALL", "PUT"}, oi : RatioOI,
     volume : RatioVolumes, iv : {DefaultIV}]

InitRatios ==
    /\ spot = 100000
    /\ T = OneDay
    /\ options \in {o \in SeqsUpTo(RatioContracts, MaxRatioLen) : WellFormed(o)}
    /\ expiries = <<>>
    /\ top_n = 0
    /\ expirations = <<>>
    /\ now = 0
    /\ out = NoCall

\* strikes_data as calculate_quant_metrics builds it from the chain
RatioStrikesData == VolumeStrikesData(SelectSeq(options, IsCall), SelectSeq(options, IsPut))

CalculatePutCallRatios ==
    /\ out = NoCall
    /\ out' = [fn |-> "calculate_put_call_ratios"]
                 @@ calculate_put_call_ratios(RatioStrikesData, spot)
    /\ UNCHANGED <<spot, T, options, expiries, top_n, expirations, now>>

NextRatios == CalculatePutCallRatios

MaxSkewLen == 2

\* two strikes below 95% of spot 100, two above 105%, one between
SkewStrikes == {85000, 90000, 100000, 110000, 115000}

SkewIVs == {20, 40}

SkewContracts ==
    [strike : SkewStrikes, side : {"CALL", "PUT"}, oi : {5}, volume : {NoVolume}, iv : SkewIVs]

InitSkew ==
    /\ spot = 100000
    /\ T = OneDay
    /\ options \in {o \in SeqsUpTo(SkewContracts, MaxSkewLen) : WellFormed(o)}
    /\ expiries = <<>>
    /\ top_n = 0
    /\ expirations = <<>>
    /\ now = 0
    /\ out = NoCall

AnalyzeVolatilitySkew ==
    /\ out = NoCall
    /\ out' = [fn |-> "analyze_volatility_skew"]
                 @@ analyze_volatility_skew(RatioStrikesData, spot)
    /\ UNCHANGED <<spot, T, options, expiries, top_n, expirations, now>>

NextSkew == AnalyzeVolatilitySkew

SpecSkew == InitSkew /\ [][NextSkew]_vars

SpecRatios == InitRatios /\ [][NextRatios]_vars

FromRatios == out.fn = "calculate_put_call_ratios"

\* C24: each of the four put/call ratios is exactly 0.0 whenever its
\* denominator (total call OI, total call volume, sum of callOI*callVolume,
\* sum of min(1, callOI/1000) over the strikes above spot) is 0, and no
\* division by zero occurs
C24_ZeroDenominatorGivesZero ==
    FromRatios =>
        /\ \A ratio \in {out.oi_based, out.volume_based, out.weighted, out.delta_adjusted} :
               ratio.raised = "none"
        /\ TotalCallOI(RatioStrikesData) = 0 => out.oi_based = Result(0)
        /\ TotalCallVol(RatioStrikesData) = 0 => out.volume_based = Result(0)
        /\ WeightedCall(RatioStrikesData) = 0 => out.weighted = Result(0)
        /\ TotalCallDelta(RatioStrikesData, spot) = 0 => out.delta_adjusted = Result(0)

\* every denominator is 0 while the puts have open interest and volume
C24_Witness ==
    /\ FromRatios
    /\ TotalCallOI(RatioStrikesData) = 0
    /\ TotalCallVol(RatioStrikesData) = 0
    /\ WeightedCall(RatioStrikesData) = 0
    /\ TotalCallDelta(RatioStrikesData, spot) = 0
    /\ TotalPutOI(RatioStrikesData) > 0
    /\ TotalPutVol(RatioStrikesData) > 0

\* the weight of a contract: its volume, 1 if the volume is absent
WeightOf(opt) == IF opt.volume = NoVolume THEN 1 ELSE opt.volume[1]

WeightedOIOf(side) ==
    SumSeq([i \in 1..Len(options) |->
               IF options[i].side = side THEN options[i].oi * WeightOf(options[i]) ELSE 0])

\* C25 as stated: in the weighted put/call ratio a contract whose volume is
\* absent is weighted with 1: it contributes its open interest times 1 to
\* the numerator (puts) or the denominator (calls)
C25_AbsentVolumeWeighsOne ==
    FromRatios => out.weighted = Ratio(WeightedOIOf("PUT"), WeightedOIOf("CALL"))

\* the implied volatilities of the contracts of one side out of the money
OtmIVs(side) ==
    LET IsOtm(opt) ==
            /\ opt.side = side
            /\ IF side = "PUT" THEN IsOtmPutStrike(opt.strike, spot)
               ELSE IsOtmCallStrike(opt.strike, spot)
        otm == SelectSeq(options, IsOtm)
    IN [i \in 1..Len(otm) |-> otm[i].iv]

\* C26 as stated: put_iv_avg is the mean implied volatility of the PUT
\* contracts with strike < 0.95*spot, call_iv_avg the mean of the CALL
\* contracts with strike > 1.05*spot (a strike without a put does not enter
\* the put average, likewise for calls); skew_ratio is their quotient, or
\* 1.0 when call_iv_avg is 0
C26_SkewAveragesOverContracts ==
    out.fn = "analyze_volatility_skew" =>
        LET puts == OtmIVs("PUT")
            calls == OtmIVs("CALL")
        IN /\ out.put_iv_avg = Mean4(SumSeq(puts), Len(puts))
           /\ out.call_iv_avg = Mean4(SumSeq(calls), Len(calls))
           /\ out.skew_ratio = SkewRatio(SumSeq(puts), Len(puts), SumSeq(calls), Len(calls))

----------------------------------------------------------------------------
(* call_ai_api: the retry loop                                              *)

MaxRetries == 6

\* retry_delays = [2, 4, 8], in seconds
retry_delays == <<2, 4, 8>>

\* what one requests.post can give: HTTP 200 with content, HTTP 200 with
\* empty content, another status, a timeout, any other exception
Responses == {"content", "empty", "status", "timeout", "exception"}

\* out is the activation record of the call: the loop variable attempt, the
\* position pc in the loop body, the posts made and the sleeps taken so far
CallAiApi ==
    /\ out = NoCall
    /\ \E max_retries \in 1..MaxRetries :
           out' = [fn |-> "call_ai_api", max_retries |-> max_retries, attempt |-> 0,
                   pc |-> "post", posts |-> <<>>, sleeps |-> <<>>,
                   result |-> "pending", raised |-> "none"]
    /\ UNCHANGED <<spot, T, options, expiries, top_n, expirations, now>>

\* the try block of one attempt: a 200 with content returns it, everything
\* else is logged and falls through to the delay
Post ==
    /\ out.fn = "call_ai_api"
    /\ out.pc = "post"
    /\ \E response \in Responses :
           out' = IF response = "content"
                  THEN [out EXCEPT !.posts = Append(@, response), !.pc = "done",
                                   !.result = "content"]
                  ELSE [out EXCEPT !.posts = Append(@, response), !.pc = "delay"]
    /\ UNCHANGED <<spot, T, options, expiries, top_n, expirations, now>>

\* the end of the loop body: retry_delays[attempt] is read outside the try
\* block (the jitter added to the delay is left out); after the last attempt
\* the loop ends and None is returned
Delay(call) ==
    IF call.attempt < call.max_retries - 1
    THEN IF call.attempt + 1 > Len(retry_delays)
         THEN [call EXCEPT !.pc = "done", !.raised = "IndexError"]
         ELSE [call EXCEPT !.sleeps = Append(@, retry_delays[call.attempt + 1]),
                           !.attempt = @ + 1, !.pc = "post"]
    ELSE [call EXCEPT !.pc = "done", !.result = "None"]

Sleep ==
    /\ out.fn = "call_ai_api"
    /\ out.pc = "delay"
    /\ out' = Delay(out)
    /\ UNCHANGED <<spot, T, options, expiries, top_n, expirations, now>>

InitRetry ==
    /\ spot = 100000
    /\ T = OneDay
    /\ options = <<>>
    /\ expiries = <<>>
    /\ top_n = 0
    /\ expirations = <<>>
    /\ now = 0
    /\ out = NoCall

NextRetry ==
    \/ CallAiApi
    \/ Post
    \/ Sleep

SpecRetry == InitRetry /\ [][NextRetry]_vars

FromAiApi == out.fn = "call_ai_api"

\* C27 as stated: for every max_retries >= 1, call_ai_api makes at most
\* max_retries HTTP attempts, returns the content of the first attempt that
\* answers 200 with content, sleeps only between attempts (never after the
\* last one), otherwise returns None after exactly max_retries failed
\* attempts, and never lets an exception escape
C27_RetriesAreBoundedAndSafe ==
    FromAiApi =>
        /\ Len(out.posts) <= out.max_retries
        /\ out.raised = "none"
        /\ \A i \in 1..Len(out.posts) - 1 : out.posts[i] # "content"
        /\ out.pc = "done" =>
               /\ Len(out.sleeps) = Len(out.posts) - 1
               /\ out.result = "content" <=> out.posts[Len(out.posts)] = "content"
               /\ out.result = "None" =>
                      /\ Len(out.posts) = out.max_retries
                      /\ \A i \in 1..Len(out.posts) : out.posts[i] # "content"

----------------------------------------------------------------------------
(* select_expirations: the labels                                           *)

\* C28 as stated: the labels in the output of select_expirations
\* (scripts/fetch_options_data.py, scripts/local_server.py) are pairwise
\* distinct, in particular there are never two MONTHLY entries
C28_LabelsPairwiseDistinct ==
    FromScripts =>
        \A i, j \in 1..Len(out.selected) :
            out.selected[i].label = out.selected[j].label => i = j

----------------------------------------------------------------------------
(* The grouping loop of the _enhanced level functions                       *)

MaxGroupLen == 2

\* a strike below half a cent, a strike, one that is within 0.5% of it only
\* after the rounding to cents, and one far from both
GroupStrikes == {4, 100000, 100504, 110000}

\* the contracts of one expiry in any processing order
GroupChains ==
    {[i \in 1..Len(s) |-> StrikeOnly(s[i])] :
        s \in {s \in SeqsUpTo(GroupStrikes, MaxGroupLen) : NoRepeat(s)}}

GroupExpirySets ==
    {[idx \in 1..Len(chains) |-> [label |-> Labels[idx], options |-> chains[idx]]] :
        chains \in SeqsUpTo(GroupChains, MaxExpiries)}

InitGroups ==
    /\ spot = 100000
    /\ T = OneDay
    /\ options = <<>>
    /\ expiries \in GroupExpirySets
    /\ top_n = 0
    /\ expirations = <<>>
    /\ now = 0
    /\ out = NoCall

\* find_resonance_levels_enhanced up to the end of its grouping loop
ResonanceGrouping ==
    /\ out = NoCall
    /\ out' = [fn |-> "strike_presence", tolerance_pct |-> ResonanceTolerance,
               strike_presence |-> StrikePresence(expiries, ResonanceTolerance)]
    /\ UNCHANGED <<spot, T, options, expiries, top_n, expirations, now>>

\* find_confluence_levels_enhanced up to the end of its grouping loop
ConfluenceGrouping ==
    /\ out = NoCall
    /\ out' = [fn |-> "strike_presence", tolerance_pct |-> ConfluenceTolerance,
               strike_presence |-> StrikePresence(expiries, ConfluenceTolerance)]
    /\ UNCHANGED <<spot, T, options, expiries, top_n, expirations, now>>

NextGroups ==
    \/ ResonanceGrouping
    \/ ConfluenceGrouping

SpecGroups == InitGroups /\ [][NextGroups]_vars

FromGrouping == out.fn = "strike_presence"

\* the keys of strike_presence
Representatives == {out.strike_presence[k].key : k \in 1..Len(out.strike_presence)}

\* (1) two representatives are further apart than the tolerance
RepresentativesApart ==
    \A a, b \in Representatives : a # b => ~WithinTolerance(a, b, out.tolerance_pct)

\* (3) a group lists an expiry index at most once
OneMemberPerExpiry ==
    \A k \in 1..Len(out.strike_presence) :
        LET members == out.strike_presence[k].members
        IN /\ \A i, j \in 1..Len(members) : members[i].idx = members[j].idx => i = j
           /\ Len(members) <= Len(expiries)

----------------------------------------------------------------------------
(* calculate_gamma_flip: where the flip lies                                *)

MaxFlipLen == 3

\* two strikes one cent apart and a third one
FlipStrikes == {100000, 100010, 101000}

FlipOI == {0, 5, 10}

FlipContracts ==
    [strike : FlipStrikes, side : {"CALL", "PUT"}, oi : FlipOI, iv : {DefaultIV}]

InitFlip ==
    /\ spot = 100300
    /\ T = OneDay
    /\ options \in {o \in SeqsUpTo(FlipContracts, MaxFlipLen) : WellFormed(o)}
    /\ expiries = <<>>
    /\ top_n = 0
    /\ expirations = <<>>
    /\ now = 0
    /\ out = NoCall

NextFlip == CallCalculateGammaFlip

SpecFlip == InitFlip /\ [][NextFlip]_vars

FromGammaFlip == out.fn = "calculate_gamma_flip" /\ out.raised = "none"

\* every contract of the side has open interest 0
SideIsEmpty(side) == \A i \in 1..Len(options) : options[i].side = side => options[i].oi = 0

\* the positions i of the curve with a strike before them
AdjacentPairs == 2..Len(GexByStrike(options, spot, T, RiskFreeRate4))

StrikeAt(i) == GexByStrike(options, spot, T, RiskFreeRate4)[i].strike

CumulativeAt(i) == GexByStrike(options, spot, T, RiskFreeRate4)[i].cumulative_gex

\* C30 as stated: for a chain in which every PUT (or every CALL) has open
\* interest 0 and no open interest is negative, calculate_gamma_flip returns
\* spot; in general the value returned is spot (rounded) or lies strictly
\* between two adjacent observed strikes
C30_FlipStrictlyBetweenStrikes ==
    FromGammaFlip =>
        /\ SideIsEmpty("PUT") \/ SideIsEmpty("CALL") => out.value = Round2(spot)
        /\ \/ out.value = Round2(spot)
           \/ \E i \in AdjacentPairs : StrikeAt(i - 1) < out.value /\ out.value < StrikeAt(i)

\* C30 with the rounding taken into account: the value returned is spot
\* (rounded) or the midpoint, rounded to two decimals, of two adjacent
\* observed strikes at which the cumulative GEX has opposite signs; it lies
\* between the two strikes, strictly if they are at least 0.02 apart
C30_FlipIsRoundedMidpoint ==
    FromGammaFlip =>
        /\ SideIsEmpty("PUT") \/ SideIsEmpty("CALL") => out.value = Round2(spot)
        /\ \/ out.value = Round2(spot)
           \/ \E i \in AdjacentPairs :
                  /\ CumulativeAt(i - 1) * CumulativeAt(i) < 0
                  /\ out.value = Round2((StrikeAt(i - 1) + StrikeAt(i)) \div 2)
                  /\ StrikeAt(i - 1) <= out.value /\ out.value <= StrikeAt(i)
                  /\ StrikeAt(i) - StrikeAt(i - 1) >= 20 =>
                         StrikeAt(i - 1) < out.value /\ out.value < StrikeAt(i)

\* a flip strictly between two strikes
C30_Witness ==
    /\ FromGammaFlip
    /\ out.value # Round2(spot)
    /\ \E i \in AdjacentPairs : StrikeAt(i - 1) < out.value /\ out.value < StrikeAt(i)

====
